---------------------------- MODULE Spec2Model ----------------------------
(***************************************************************************)
(* A model of the block/page segmentation core of the `reader` program:    *)
(* the content classifier, the unified-diff hunk parser, the page          *)
(* splitter, the format parsers (Markdown, Diff, JSONL, Txt, Todo), the    *)
(* BlockIndex with its Navigator, and JSONL follow mode.                   *)
(*                                                                         *)
(* Strings are sequences of one-character strings (so that prefixes,       *)
(* substrings and splitting are computed as the Go code computes them).    *)
(* A tview styling tag such as "[white:#303030]" that the JSONL and Todo   *)
(* formatters write is kept as one element of such a sequence; code that   *)
(* looks at the characters of such a string (the Markdown passes that      *)
(* FormatBlockPage runs over a page) gets it spelled out (SpellTags).  The *)
(* styling of assistant Markdown and the escape sequences of FormatHunk    *)
(* are written character by character.  A character that cannot stand in   *)
(* a string of this module is written "uXXXX", its code point.  Go cuts    *)
(* and measures strings in bytes: a byte of the UTF-8 encoding that is     *)
(* left without its character by such a cut is written "xHH".             *)
(***************************************************************************)
EXTENDS Integers, Sequences, FiniteSets, TLC

VARIABLES
  pc,              \* position of the program: which call has been made
  content,         \* the text handed to a text parser / classifier
  ctype,           \* result of DetectBlockContentType(content)
  hunks,           \* result of ParseHunks(content)
  todos,           \* the decoded JSON handed to TodoParser.Parse
  blocks,          \* the []Block being built / index.blocks
  nameIndex,       \* index.nameIndex : lowercased name -> position
  currentPos,      \* Navigator.currentPos
  currentPage,     \* Navigator.currentPage
  queued,          \* onNewBlock updates queued for the UI thread, not yet run
  query,           \* the argument of the last index lookup
  found,           \* the result of the last index lookup (position, -1 = nil)
  jlines,          \* the JSONL transcript handed to JSONLParser.Parse
  filters,         \* JSONLParser.Filters
  lineNum,         \* number of transcript lines consumed by the running loop
  currentTurn,     \* the loop-local *ConversationTurn (Parse or watchFile)
  turnNumber,      \* the loop-local turnNumber (Parse or watchFile)
  currentBlockIdx, \* watchFile's currentBlockIdx
  turns,           \* history: the turns handed to CreateTurnBlock, per block
  appended,        \* history: the lines dispatched by watchFile so far
  inputPath,       \* filePath of viewTextFile ("" for piped input)
  parser,          \* the Parser selected for the input ("" before selection)
  mu,              \* serveHTML's sync.RWMutex guarding currentHTML
  currentHTML,     \* serveHTML's rendered page: a string header (pointer, length)
  fileModTime,     \* modification time of the served file
  lastModTime,     \* watchAndRerender's lastModTime
  rendered,        \* watchAndRerender's local rendered page
  wpc,             \* position of the watcher goroutine (watchAndRerender,
                   \* watchGenericFile, watchFile)
  hpc,             \* position of each GET / handler
  page,            \* each GET / handler's local copy of the page
  clients,         \* sseBroadcaster.clients
  ch,              \* each SSE client's channel (capacity 1): pending signals
  epc,             \* position of each GET /events handler
  fileBytes,       \* the bytes of the file watchFile follows
  filePos,         \* the read position of watchFile's open file
  offset,          \* watchFile's offset
  partial,         \* watchFile's partial
  dispatched,      \* history: the lines watchFile's loop has ranged over
  handled,         \* history: the lines handed to ParseLineInfo
  hist,            \* history: size at the start, bytes written, truncation
  reloads,         \* the onReload updates queued for the UI thread, not yet run
  contentTypes,    \* the []ContentType returned by ScanContentTypes
  display,         \* the text the view was last given
  terminalWidth    \* viewTextFile's termWidth (0 before it is detected)

vars == <<pc, content, ctype, hunks, todos, blocks, nameIndex, currentPos,
          currentPage, queued, query, found, jlines, filters, lineNum, currentTurn,
          turnNumber, currentBlockIdx, turns, appended, inputPath, parser,
          mu, currentHTML, fileModTime, lastModTime, rendered, wpc, hpc, page,
          clients, ch, epc, fileBytes, filePos, offset, partial, dispatched,
          handled, hist, reloads, contentTypes, display, terminalWidth>>

textVars  == <<content, ctype, hunks, todos>>
indexVars == <<nameIndex, currentPos, currentPage, queued, query, found>>
jsonlVars == <<jlines, filters, lineNum, currentTurn, turnNumber,
               currentBlockIdx, turns, appended>>
cliVars   == <<inputPath, parser>>
serverVars == <<mu, currentHTML, fileModTime, lastModTime, rendered, wpc, hpc,
                page, clients, ch, epc>>
serverRest == <<mu, currentHTML, fileModTime, lastModTime, rendered, hpc, page,
                clients, ch, epc>>
readVars  == <<fileBytes, filePos, offset, partial, dispatched, handled, hist>>
reloadVars == <<reloads>>
viewVars  == <<contentTypes, display, terminalWidth>>
extraVars == <<cliVars, serverVars, readVars, reloadVars, viewVars>>

-----------------------------------------------------------------------------
(* Go's strings package, on sequences of characters.                       *)

NL == "\n"

Min(a, b) == IF a < b THEN a ELSE b
Max(a, b) == IF a > b THEN a ELSE b

HasPrefix(s, p) == Len(s) >= Len(p) /\ SubSeq(s, 1, Len(p)) = p

\* p occurs in s at (1-based) position i.
OccursAt(s, i, p) == i >= 1 /\ i + Len(p) - 1 <= Len(s) /\ SubSeq(s, i, i + Len(p) - 1) = p

HasSuffix(s, p) == Len(s) >= Len(p) /\ SubSeq(s, Len(s) - Len(p) + 1, Len(s)) = p

\* strings.Index: 0-based position of the first occurrence of p in s, or -1.
LeastOr(S, none) == IF S = {} THEN none ELSE CHOOSE i \in S : \A j \in S : i <= j
GreatestOr(S, none) == IF S = {} THEN none ELSE CHOOSE i \in S : \A j \in S : i >= j

Index(s, p) ==
  LeastOr({i \in 0..(Len(s) - Len(p)) : SubSeq(s, i + 1, i + Len(p)) = p}, -1)

\* strings.LastIndex: 0-based position of the last occurrence of p in s, or -1.
LastIndex(s, p) ==
  GreatestOr({i \in 0..(Len(s) - Len(p)) : SubSeq(s, i + 1, i + Len(p)) = p}, -1)

StrContains(s, p) == Index(s, p) >= 0

TrimPrefix(s, p) == IF HasPrefix(s, p) THEN SubSeq(s, Len(p) + 1, Len(s)) ELSE s

\* strings.Split(s, "\n"): always at least one element.  seps holds the
\* positions of the separators, j is the first of them from i on, 0 when
\* there is none.
RECURSIVE SplitFrom(_, _, _)
SplitAt(s, seps, i, j) ==
  IF j = 0 THEN <<SubSeq(s, i, Len(s))>>
  ELSE <<SubSeq(s, i, j - 1)>> \o SplitFrom(s, seps, j + 1)

SplitFrom(s, seps, i) == SplitAt(s, seps, i, LeastOr({j \in seps : j >= i}, 0))

Split(s, sep) == SplitFrom(s, {j \in 1..Len(s) : s[j] = sep}, 1)

\* strings.Join(parts, sep), sep a string.
RECURSIVE Join(_, _)
Join(parts, sep) ==
  IF Len(parts) = 0 THEN <<>>
  ELSE IF Len(parts) = 1 THEN parts[1]
  ELSE parts[1] \o sep \o Join(Tail(parts), sep)

\* A string literal as the sequence of its characters.
Chars(str) == [i \in 1..Len(str) |-> SubSeq(str, i, i)]

\* A panic of the program (a negative strings.Repeat count, a slice bound
\* out of range): the value of a call that does not return.  It is no
\* string, since "panic" is no character.
Panic == <<"panic">>

\* A character is a one-character string; a code point above U+00FF, and the
\* back quote U+0060, is written "uXXXX" (its number in hexadecimal), one
\* element like any other.

\* unicode.IsSpace: space, \t, \n, \r, \v (U+000B), \f, U+0085, U+00A0,
\* U+1680, U+2000..U+200A, U+2028, U+2029, U+202F, U+205F, U+3000.
WhiteSpace ==
  {" ", "\t", "\n", "\r", "", "\f", "", " ",
   "u1680", "u2000", "u2001", "u2002", "u2003", "u2004", "u2005", "u2006",
   "u2007", "u2008", "u2009", "u200A", "u2028", "u2029", "u202F", "u205F", "u3000"}

\* regexp: \s is [\t\n\f\r ] and nothing else; [a-zA-Z0-9_] is \w
RegexSpace == {" ", "\t", "\n", "\f", "\r"}

\* strings.TrimSpace
RECURSIVE TrimLeft(_)
TrimLeft(s) ==
  IF Len(s) > 0 /\ s[1] \in WhiteSpace THEN TrimLeft(Tail(s)) ELSE s

RECURSIVE TrimRight(_)
TrimRight(s) ==
  IF Len(s) > 0 /\ s[Len(s)] \in WhiteSpace
  THEN TrimRight(SubSeq(s, 1, Len(s) - 1)) ELSE s

TrimSpace(s) == TrimRight(TrimLeft(s))

\* The letters unicode.ToLower changes and what it changes them to: the
\* ASCII capitals first, then every other code point with a lower-case
\* mapping.
UpperChars ==
  <<"A", "B", "C", "D", "E", "F", "G", "H", "I", "J", "K", "L",
    "M", "N", "O", "P", "Q", "R", "S", "T", "U", "V", "W", "X",
    "Y", "Z", "À", "Á", "Â", "Ã", "Ä", "Å", "Æ", "Ç", "È", "É",
    "Ê", "Ë", "Ì", "Í", "Î", "Ï", "Ð", "Ñ", "Ò", "Ó", "Ô", "Õ",
    "Ö", "Ø", "Ù", "Ú", "Û", "Ü", "Ý", "Þ", "u0100", "u0102", "u0104", "u0106",
    "u0108", "u010A", "u010C", "u010E", "u0110", "u0112", "u0114", "u0116", "u0118", "u011A", "u011C", "u011E",
    "u0120", "u0122", "u0124", "u0126", "u0128", "u012A", "u012C", "u012E", "u0130", "u0132", "u0134", "u0136",
    "u0139", "u013B", "u013D", "u013F", "u0141", "u0143", "u0145", "u0147", "u014A", "u014C", "u014E", "u0150",
    "u0152", "u0154", "u0156", "u0158", "u015A", "u015C", "u015E", "u0160", "u0162", "u0164", "u0166", "u0168",
    "u016A", "u016C", "u016E", "u0170", "u0172", "u0174", "u0176", "u0178", "u0179", "u017B", "u017D", "u0181",
    "u0182", "u0184", "u0186", "u0187", "u0189", "u018A", "u018B", "u018E", "u018F", "u0190", "u0191", "u0193",
    "u0194", "u0196", "u0197", "u0198", "u019C", "u019D", "u019F", "u01A0", "u01A2", "u01A4", "u01A6", "u01A7",
    "u01A9", "u01AC", "u01AE", "u01AF", "u01B1", "u01B2", "u01B3", "u01B5", "u01B7", "u01B8", "u01BC", "u01C4",
    "u01C5", "u01C7", "u01C8", "u01CA", "u01CB", "u01CD", "u01CF", "u01D1", "u01D3", "u01D5", "u01D7", "u01D9",
    "u01DB", "u01DE", "u01E0", "u01E2", "u01E4", "u01E6", "u01E8", "u01EA", "u01EC", "u01EE", "u01F1", "u01F2",
    "u01F4", "u01F6", "u01F7", "u01F8", "u01FA", "u01FC", "u01FE", "u0200", "u0202", "u0204", "u0206", "u0208",
    "u020A", "u020C", "u020E", "u0210", "u0212", "u0214", "u0216", "u0218", "u021A", "u021C", "u021E", "u0220",
    "u0222", "u0224", "u0226", "u0228", "u022A", "u022C", "u022E", "u0230", "u0232", "u023A", "u023B", "u023D",
    "u023E", "u0241", "u0243", "u0244", "u0245", "u0246", "u0248", "u024A", "u024C", "u024E", "u0370", "u0372",
    "u0376", "u037F", "u0386", "u0388", "u0389", "u038A", "u038C", "u038E", "u038F", "u0391", "u0392", "u0393",
    "u0394", "u0395", "u0396", "u0397", "u0398", "u0399", "u039A", "u039B", "u039C", "u039D", "u039E", "u039F",
    "u03A0", "u03A1", "u03A3", "u03A4", "u03A5", "u03A6", "u03A7", "u03A8", "u03A9", "u03AA", "u03AB", "u03CF",
    "u03D8", "u03DA", "u03DC", "u03DE", "u03E0", "u03E2", "u03E4", "u03E6", "u03E8", "u03EA", "u03EC", "u03EE",
    "u03F4", "u03F7", "u03F9", "u03FA", "u03FD", "u03FE", "u03FF", "u0400", "u0401", "u0402", "u0403", "u0404",
    "u0405", "u0406", "u0407", "u0408", "u0409", "u040A", "u040B", "u040C", "u040D", "u040E", "u040F", "u0410",
    "u0411", "u0412", "u0413", "u0414", "u0415", "u0416", "u0417", "u0418", "u0419", "u041A", "u041B", "u041C",
    "u041D", "u041E", "u041F", "u0420", "u0421", "u0422", "u0423", "u0424", "u0425", "u0426", "u0427", "u0428",
    "u0429", "u042A", "u042B", "u042C", "u042D", "u042E", "u042F", "u0460", "u0462", "u0464", "u0466", "u0468",
    "u046A", "u046C", "u046E", "u0470", "u0472", "u0474", "u0476", "u0478", "u047A", "u047C", "u047E", "u0480",
    "u048A", "u048C", "u048E", "u0490", "u0492", "u0494", "u0496", "u0498", "u049A", "u049C", "u049E", "u04A0",
    "u04A2", "u04A4", "u04A6", "u04A8", "u04AA", "u04AC", "u04AE", "u04B0", "u04B2", "u04B4", "u04B6", "u04B8",
    "u04BA", "u04BC", "u04BE", "u04C0", "u04C1", "u04C3", "u04C5", "u04C7", "u04C9", "u04CB", "u04CD", "u04D0",
    "u04D2", "u04D4", "u04D6", "u04D8", "u04DA", "u04DC", "u04DE", "u04E0", "u04E2", "u04E4", "u04E6", "u04E8",
    "u04EA", "u04EC", "u04EE", "u04F0", "u04F2", "u04F4", "u04F6", "u04F8", "u04FA", "u04FC", "u04FE", "u0500",
    "u0502", "u0504", "u0506", "u0508", "u050A", "u050C", "u050E", "u0510", "u0512", "u0514", "u0516", "u0518",
    "u051A", "u051C", "u051E", "u0520", "u0522", "u0524", "u0526", "u0528", "u052A", "u052C", "u052E", "u0531",
    "u0532", "u0533", "u0534", "u0535", "u0536", "u0537", "u0538", "u0539", "u053A", "u053B", "u053C", "u053D",
    "u053E", "u053F", "u0540", "u0541", "u0542", "u0543", "u0544", "u0545", "u0546", "u0547", "u0548", "u0549",
    "u054A", "u054B", "u054C", "u054D", "u054E", "u054F", "u0550", "u0551", "u0552", "u0553", "u0554", "u0555",
    "u0556", "u10A0", "u10A1", "u10A2", "u10A3", "u10A4", "u10A5", "u10A6", "u10A7", "u10A8", "u10A9", "u10AA",
    "u10AB", "u10AC", "u10AD", "u10AE", "u10AF", "u10B0", "u10B1", "u10B2", "u10B3", "u10B4", "u10B5", "u10B6",
    "u10B7", "u10B8", "u10B9", "u10BA", "u10BB", "u10BC", "u10BD", "u10BE", "u10BF", "u10C0", "u10C1", "u10C2",
    "u10C3", "u10C4", "u10C5", "u10C7", "u10CD", "u13A0", "u13A1", "u13A2", "u13A3", "u13A4", "u13A5", "u13A6",
    "u13A7", "u13A8", "u13A9", "u13AA", "u13AB", "u13AC", "u13AD", "u13AE", "u13AF", "u13B0", "u13B1", "u13B2",
    "u13B3", "u13B4", "u13B5", "u13B6", "u13B7", "u13B8", "u13B9", "u13BA", "u13BB", "u13BC", "u13BD", "u13BE",
    "u13BF", "u13C0", "u13C1", "u13C2", "u13C3", "u13C4", "u13C5", "u13C6", "u13C7", "u13C8", "u13C9", "u13CA",
    "u13CB", "u13CC", "u13CD", "u13CE", "u13CF", "u13D0", "u13D1", "u13D2", "u13D3", "u13D4", "u13D5", "u13D6",
    "u13D7", "u13D8", "u13D9", "u13DA", "u13DB", "u13DC", "u13DD", "u13DE", "u13DF", "u13E0", "u13E1", "u13E2",
    "u13E3", "u13E4", "u13E5", "u13E6", "u13E7", "u13E8", "u13E9", "u13EA", "u13EB", "u13EC", "u13ED", "u13EE",
    "u13EF", "u13F0", "u13F1", "u13F2", "u13F3", "u13F4", "u13F5", "u1C90", "u1C91", "u1C92", "u1C93", "u1C94",
    "u1C95", "u1C96", "u1C97", "u1C98", "u1C99", "u1C9A", "u1C9B", "u1C9C", "u1C9D", "u1C9E", "u1C9F", "u1CA0",
    "u1CA1", "u1CA2", "u1CA3", "u1CA4", "u1CA5", "u1CA6", "u1CA7", "u1CA8", "u1CA9", "u1CAA", "u1CAB", "u1CAC",
    "u1CAD", "u1CAE", "u1CAF", "u1CB0", "u1CB1", "u1CB2", "u1CB3", "u1CB4", "u1CB5", "u1CB6", "u1CB7", "u1CB8",
    "u1CB9", "u1CBA", "u1CBD", "u1CBE", "u1CBF", "u1E00", "u1E02", "u1E04", "u1E06", "u1E08", "u1E0A", "u1E0C",
    "u1E0E", "u1E10", "u1E12", "u1E14", "u1E16", "u1E18", "u1E1A", "u1E1C", "u1E1E", "u1E20", "u1E22", "u1E24",
    "u1E26", "u1E28", "u1E2A", "u1E2C", "u1E2E", "u1E30", "u1E32", "u1E34", "u1E36", "u1E38", "u1E3A", "u1E3C",
    "u1E3E", "u1E40", "u1E42", "u1E44", "u1E46", "u1E48", "u1E4A", "u1E4C", "u1E4E", "u1E50", "u1E52", "u1E54",
    "u1E56", "u1E58", "u1E5A", "u1E5C", "u1E5E", "u1E60", "u1E62", "u1E64", "u1E66", "u1E68", "u1E6A", "u1E6C",
    "u1E6E", "u1E70", "u1E72", "u1E74", "u1E76", "u1E78", "u1E7A", "u1E7C", "u1E7E", "u1E80", "u1E82", "u1E84",
    "u1E86", "u1E88", "u1E8A", "u1E8C", "u1E8E", "u1E90", "u1E92", "u1E94", "u1E9E", "u1EA0", "u1EA2", "u1EA4",
    "u1EA6", "u1EA8", "u1EAA", "u1EAC", "u1EAE", "u1EB0", "u1EB2", "u1EB4", "u1EB6", "u1EB8", "u1EBA", "u1EBC",
    "u1EBE", "u1EC0", "u1EC2", "u1EC4", "u1EC6", "u1EC8", "u1ECA", "u1ECC", "u1ECE", "u1ED0", "u1ED2", "u1ED4",
    "u1ED6", "u1ED8", "u1EDA", "u1EDC", "u1EDE", "u1EE0", "u1EE2", "u1EE4", "u1EE6", "u1EE8", "u1EEA", "u1EEC",
    "u1EEE", "u1EF0", "u1EF2", "u1EF4", "u1EF6", "u1EF8", "u1EFA", "u1EFC", "u1EFE", "u1F08", "u1F09", "u1F0A",
    "u1F0B", "u1F0C", "u1F0D", "u1F0E", "u1F0F", "u1F18", "u1F19", "u1F1A", "u1F1B", "u1F1C", "u1F1D", "u1F28",
    "u1F29", "u1F2A", "u1F2B", "u1F2C", "u1F2D", "u1F2E", "u1F2F", "u1F38", "u1F39", "u1F3A", "u1F3B", "u1F3C",
    "u1F3D", "u1F3E", "u1F3F", "u1F48", "u1F49", "u1F4A", "u1F4B", "u1F4C", "u1F4D", "u1F59", "u1F5B", "u1F5D",
    "u1F5F", "u1F68", "u1F69", "u1F6A", "u1F6B", "u1F6C", "u1F6D", "u1F6E", "u1F6F", "u1F88", "u1F89", "u1F8A",
    "u1F8B", "u1F8C", "u1F8D", "u1F8E", "u1F8F", "u1F98", "u1F99", "u1F9A", "u1F9B", "u1F9C", "u1F9D", "u1F9E",
    "u1F9F", "u1FA8", "u1FA9", "u1FAA", "u1FAB", "u1FAC", "u1FAD", "u1FAE", "u1FAF", "u1FB8", "u1FB9", "u1FBA",
    "u1FBB", "u1FBC", "u1FC8", "u1FC9", "u1FCA", "u1FCB", "u1FCC", "u1FD8", "u1FD9", "u1FDA", "u1FDB", "u1FE8",
    "u1FE9", "u1FEA", "u1FEB", "u1FEC", "u1FF8", "u1FF9", "u1FFA", "u1FFB", "u1FFC", "u2126", "u212A", "u212B",
    "u2132", "u2160", "u2161", "u2162", "u2163", "u2164", "u2165", "u2166", "u2167", "u2168", "u2169", "u216A",
    "u216B", "u216C", "u216D", "u216E", "u216F", "u2183", "u24B6", "u24B7", "u24B8", "u24B9", "u24BA", "u24BB",
    "u24BC", "u24BD", "u24BE", "u24BF", "u24C0", "u24C1", "u24C2", "u24C3", "u24C4", "u24C5", "u24C6", "u24C7",
    "u24C8", "u24C9", "u24CA", "u24CB", "u24CC", "u24CD", "u24CE", "u24CF", "u2C00", "u2C01", "u2C02", "u2C03",
    "u2C04", "u2C05", "u2C06", "u2C07", "u2C08", "u2C09", "u2C0A", "u2C0B", "u2C0C", "u2C0D", "u2C0E", "u2C0F",
    "u2C10", "u2C11", "u2C12", "u2C13", "u2C14", "u2C15", "u2C16", "u2C17", "u2C18", "u2C19", "u2C1A", "u2C1B",
    "u2C1C", "u2C1D", "u2C1E", "u2C1F", "u2C20", "u2C21", "u2C22", "u2C23", "u2C24", "u2C25", "u2C26", "u2C27",
    "u2C28", "u2C29", "u2C2A", "u2C2B", "u2C2C", "u2C2D", "u2C2E", "u2C2F", "u2C60", "u2C62", "u2C63", "u2C64",
    "u2C67", "u2C69", "u2C6B", "u2C6D", "u2C6E", "u2C6F", "u2C70", "u2C72", "u2C75", "u2C7E", "u2C7F", "u2C80",
    "u2C82", "u2C84", "u2C86", "u2C88", "u2C8A", "u2C8C", "u2C8E", "u2C90", "u2C92", "u2C94", "u2C96", "u2C98",
    "u2C9A", "u2C9C", "u2C9E", "u2CA0", "u2CA2", "u2CA4", "u2CA6", "u2CA8", "u2CAA", "u2CAC", "u2CAE", "u2CB0",
    "u2CB2", "u2CB4", "u2CB6", "u2CB8", "u2CBA", "u2CBC", "u2CBE", "u2CC0", "u2CC2", "u2CC4", "u2CC6", "u2CC8",
    "u2CCA", "u2CCC", "u2CCE", "u2CD0", "u2CD2", "u2CD4", "u2CD6", "u2CD8", "u2CDA", "u2CDC", "u2CDE", "u2CE0",
    "u2CE2", "u2CEB", "u2CED", "u2CF2", "uA640", "uA642", "uA644", "uA646", "uA648", "uA64A", "uA64C", "uA64E",
    "uA650", "uA652", "uA654", "uA656", "uA658", "uA65A", "uA65C", "uA65E", "uA660", "uA662", "uA664", "uA666",
    "uA668", "uA66A", "uA66C", "uA680", "uA682", "uA684", "uA686", "uA688", "uA68A", "uA68C", "uA68E", "uA690",
    "uA692", "uA694", "uA696", "uA698", "uA69A", "uA722", "uA724", "uA726", "uA728", "uA72A", "uA72C", "uA72E",
    "uA732", "uA734", "uA736", "uA738", "uA73A", "uA73C", "uA73E", "uA740", "uA742", "uA744", "uA746", "uA748",
    "uA74A", "uA74C", "uA74E", "uA750", "uA752", "uA754", "uA756", "uA758", "uA75A", "uA75C", "uA75E", "uA760",
    "uA762", "uA764", "uA766", "uA768", "uA76A", "uA76C", "uA76E", "uA779", "uA77B", "uA77D", "uA77E", "uA780",
    "uA782", "uA784", "uA786", "uA78B", "uA78D", "uA790", "uA792", "uA796", "uA798", "uA79A", "uA79C", "uA79E",
    "uA7A0", "uA7A2", "uA7A4", "uA7A6", "uA7A8", "uA7AA", "uA7AB", "uA7AC", "uA7AD", "uA7AE", "uA7B0", "uA7B1",
    "uA7B2", "uA7B3", "uA7B4", "uA7B6", "uA7B8", "uA7BA", "uA7BC", "uA7BE", "uA7C0", "uA7C2", "uA7C4", "uA7C5",
    "uA7C6", "uA7C7", "uA7C9", "uA7D0", "uA7D6", "uA7D8", "uA7F5", "uFF21", "uFF22", "uFF23", "uFF24", "uFF25",
    "uFF26", "uFF27", "uFF28", "uFF29", "uFF2A", "uFF2B", "uFF2C", "uFF2D", "uFF2E", "uFF2F", "uFF30", "uFF31",
    "uFF32", "uFF33", "uFF34", "uFF35", "uFF36", "uFF37", "uFF38", "uFF39", "uFF3A", "u10400", "u10401", "u10402",
    "u10403", "u10404", "u10405", "u10406", "u10407", "u10408", "u10409", "u1040A", "u1040B", "u1040C", "u1040D", "u1040E",
    "u1040F", "u10410", "u10411", "u10412", "u10413", "u10414", "u10415", "u10416", "u10417", "u10418", "u10419", "u1041A",
    "u1041B", "u1041C", "u1041D", "u1041E", "u1041F", "u10420", "u10421", "u10422", "u10423", "u10424", "u10425", "u10426",
    "u10427", "u104B0", "u104B1", "u104B2", "u104B3", "u104B4", "u104B5", "u104B6", "u104B7", "u104B8", "u104B9", "u104BA",
    "u104BB", "u104BC", "u104BD", "u104BE", "u104BF", "u104C0", "u104C1", "u104C2", "u104C3", "u104C4", "u104C5", "u104C6",
    "u104C7", "u104C8", "u104C9", "u104CA", "u104CB", "u104CC", "u104CD", "u104CE", "u104CF", "u104D0", "u104D1", "u104D2",
    "u104D3", "u10570", "u10571", "u10572", "u10573", "u10574", "u10575", "u10576", "u10577", "u10578", "u10579", "u1057A",
    "u1057C", "u1057D", "u1057E", "u1057F", "u10580", "u10581", "u10582", "u10583", "u10584", "u10585", "u10586", "u10587",
    "u10588", "u10589", "u1058A", "u1058C", "u1058D", "u1058E", "u1058F", "u10590", "u10591", "u10592", "u10594", "u10595",
    "u10C80", "u10C81", "u10C82", "u10C83", "u10C84", "u10C85", "u10C86", "u10C87", "u10C88", "u10C89", "u10C8A", "u10C8B",
    "u10C8C", "u10C8D", "u10C8E", "u10C8F", "u10C90", "u10C91", "u10C92", "u10C93", "u10C94", "u10C95", "u10C96", "u10C97",
    "u10C98", "u10C99", "u10C9A", "u10C9B", "u10C9C", "u10C9D", "u10C9E", "u10C9F", "u10CA0", "u10CA1", "u10CA2", "u10CA3",
    "u10CA4", "u10CA5", "u10CA6", "u10CA7", "u10CA8", "u10CA9", "u10CAA", "u10CAB", "u10CAC", "u10CAD", "u10CAE", "u10CAF",
    "u10CB0", "u10CB1", "u10CB2", "u118A0", "u118A1", "u118A2", "u118A3", "u118A4", "u118A5", "u118A6", "u118A7", "u118A8",
    "u118A9", "u118AA", "u118AB", "u118AC", "u118AD", "u118AE", "u118AF", "u118B0", "u118B1", "u118B2", "u118B3", "u118B4",
    "u118B5", "u118B6", "u118B7", "u118B8", "u118B9", "u118BA", "u118BB", "u118BC", "u118BD", "u118BE", "u118BF", "u16E40",
    "u16E41", "u16E42", "u16E43", "u16E44", "u16E45", "u16E46", "u16E47", "u16E48", "u16E49", "u16E4A", "u16E4B", "u16E4C",
    "u16E4D", "u16E4E", "u16E4F", "u16E50", "u16E51", "u16E52", "u16E53", "u16E54", "u16E55", "u16E56", "u16E57", "u16E58",
    "u16E59", "u16E5A", "u16E5B", "u16E5C", "u16E5D", "u16E5E", "u16E5F", "u1E900", "u1E901", "u1E902", "u1E903", "u1E904",
    "u1E905", "u1E906", "u1E907", "u1E908", "u1E909", "u1E90A", "u1E90B", "u1E90C", "u1E90D", "u1E90E", "u1E90F", "u1E910",
    "u1E911", "u1E912", "u1E913", "u1E914", "u1E915", "u1E916", "u1E917", "u1E918", "u1E919", "u1E91A", "u1E91B", "u1E91C",
    "u1E91D", "u1E91E", "u1E91F", "u1E920", "u1E921">>
LowerChars ==
  <<"a", "b", "c", "d", "e", "f", "g", "h", "i", "j", "k", "l",
    "m", "n", "o", "p", "q", "r", "s", "t", "u", "v", "w", "x",
    "y", "z", "à", "á", "â", "ã", "ä", "å", "æ", "ç", "è", "é",
    "ê", "ë", "ì", "í", "î", "ï", "ð", "ñ", "ò", "ó", "ô", "õ",
    "ö", "ø", "ù", "ú", "û", "ü", "ý", "þ", "u0101", "u0103", "u0105", "u0107",
    "u0109", "u010B", "u010D", "u010F", "u0111", "u0113", "u0115", "u0117", "u0119", "u011B", "u011D", "u011F",
    "u0121", "u0123", "u0125", "u0127", "u0129", "u012B", "u012D", "u012F", "i", "u0133", "u0135", "u0137",
    "u013A", "u013C", "u013E", "u0140", "u0142", "u0144", "u0146", "u0148", "u014B", "u014D", "u014F", "u0151",
    "u0153", "u0155", "u0157", "u0159", "u015B", "u015D", "u015F", "u0161", "u0163", "u0165", "u0167", "u0169",
    "u016B", "u016D", "u016F", "u0171", "u0173", "u0175", "u0177", "ÿ", "u017A", "u017C", "u017E", "u0253",
    "u0183", "u0185", "u0254", "u0188", "u0256", "u0257", "u018C", "u01DD", "u0259", "u025B", "u0192", "u0260",
    "u0263", "u0269", "u0268", "u0199", "u026F", "u0272", "u0275", "u01A1", "u01A3", "u01A5", "u0280", "u01A8",
    "u0283", "u01AD", "u0288", "u01B0", "u028A", "u028B", "u01B4", "u01B6", "u0292", "u01B9", "u01BD", "u01C6",
    "u01C6", "u01C9", "u01C9", "u01CC", "u01CC", "u01CE", "u01D0", "u01D2", "u01D4", "u01D6", "u01D8", "u01DA",
    "u01DC", "u01DF", "u01E1", "u01E3", "u01E5", "u01E7", "u01E9", "u01EB", "u01ED", "u01EF", "u01F3", "u01F3",
    "u01F5", "u0195", "u01BF", "u01F9", "u01FB", "u01FD", "u01FF", "u0201", "u0203", "u0205", "u0207", "u0209",
    "u020B", "u020D", "u020F", "u0211", "u0213", "u0215", "u0217", "u0219", "u021B", "u021D", "u021F", "u019E",
    "u0223", "u0225", "u0227", "u0229", "u022B", "u022D", "u022F", "u0231", "u0233", "u2C65", "u023C", "u019A",
    "u2C66", "u0242", "u0180", "u0289", "u028C", "u0247", "u0249", "u024B", "u024D", "u024F", "u0371", "u0373",
    "u0377", "u03F3", "u03AC", "u03AD", "u03AE", "u03AF", "u03CC", "u03CD", "u03CE", "u03B1", "u03B2", "u03B3",
    "u03B4", "u03B5", "u03B6", "u03B7", "u03B8", "u03B9", "u03BA", "u03BB", "u03BC", "u03BD", "u03BE", "u03BF",
    "u03C0", "u03C1", "u03C3", "u03C4", "u03C5", "u03C6", "u03C7", "u03C8", "u03C9", "u03CA", "u03CB", "u03D7",
    "u03D9", "u03DB", "u03DD", "u03DF", "u03E1", "u03E3", "u03E5", "u03E7", "u03E9", "u03EB", "u03ED", "u03EF",
    "u03B8", "u03F8", "u03F2", "u03FB", "u037B", "u037C", "u037D", "u0450", "u0451", "u0452", "u0453", "u0454",
    "u0455", "u0456", "u0457", "u0458", "u0459", "u045A", "u045B", "u045C", "u045D", "u045E", "u045F", "u0430",
    "u0431", "u0432", "u0433", "u0434", "u0435", "u0436", "u0437", "u0438", "u0439", "u043A", "u043B", "u043C",
    "u043D", "u043E", "u043F", "u0440", "u0441", "u0442", "u0443", "u0444", "u0445", "u0446", "u0447", "u0448",
    "u0449", "u044A", "u044B", "u044C", "u044D", "u044E", "u044F", "u0461", "u0463", "u0465", "u0467", "u0469",
    "u046B", "u046D", "u046F", "u0471", "u0473", "u0475", "u0477", "u0479", "u047B", "u047D", "u047F", "u0481",
    "u048B", "u048D", "u048F", "u0491", "u0493", "u0495", "u0497", "u0499", "u049B", "u049D", "u049F", "u04A1",
    "u04A3", "u04A5", "u04A7", "u04A9", "u04AB", "u04AD", "u04AF", "u04B1", "u04B3", "u04B5", "u04B7", "u04B9",
    "u04BB", "u04BD", "u04BF", "u04CF", "u04C2", "u04C4", "u04C6", "u04C8", "u04CA", "u04CC", "u04CE", "u04D1",
    "u04D3", "u04D5", "u04D7", "u04D9", "u04DB", "u04DD", "u04DF", "u04E1", "u04E3", "u04E5", "u04E7", "u04E9",
    "u04EB", "u04ED", "u04EF", "u04F1", "u04F3", "u04F5", "u04F7", "u04F9", "u04FB", "u04FD", "u04FF", "u0501",
    "u0503", "u0505", "u0507", "u0509", "u050B", "u050D", "u050F", "u0511", "u0513", "u0515", "u0517", "u0519",
    "u051B", "u051D", "u051F", "u0521", "u0523", "u0525", "u0527", "u0529", "u052B", "u052D", "u052F", "u0561",
    "u0562", "u0563", "u0564", "u0565", "u0566", "u0567", "u0568", "u0569", "u056A", "u056B", "u056C", "u056D",
    "u056E", "u056F", "u0570", "u0571", "u0572", "u0573", "u0574", "u0575", "u0576", "u0577", "u0578", "u0579",
    "u057A", "u057B", "u057C", "u057D", "u057E", "u057F", "u0580", "u0581", "u0582", "u0583", "u0584", "u0585",
    "u0586", "u2D00", "u2D01", "u2D02", "u2D03", "u2D04", "u2D05", "u2D06", "u2D07", "u2D08", "u2D09", "u2D0A",
    "u2D0B", "u2D0C", "u2D0D", "u2D0E", "u2D0F", "u2D10", "u2D11", "u2D12", "u2D13", "u2D14", "u2D15", "u2D16",
    "u2D17", "u2D18", "u2D19", "u2D1A", "u2D1B", "u2D1C", "u2D1D", "u2D1E", "u2D1F", "u2D20", "u2D21", "u2D22",
    "u2D23", "u2D24", "u2D25", "u2D27", "u2D2D", "uAB70", "uAB71", "uAB72", "uAB73", "uAB74", "uAB75", "uAB76",
    "uAB77", "uAB78", "uAB79", "uAB7A", "uAB7B", "uAB7C", "uAB7D", "uAB7E", "uAB7F", "uAB80", "uAB81", "uAB82",
    "uAB83", "uAB84", "uAB85", "uAB86", "uAB87", "uAB88", "uAB89", "uAB8A", "uAB8B", "uAB8C", "uAB8D", "uAB8E",
    "uAB8F", "uAB90", "uAB91", "uAB92", "uAB93", "uAB94", "uAB95", "uAB96", "uAB97", "uAB98", "uAB99", "uAB9A",
    "uAB9B", "uAB9C", "uAB9D", "uAB9E", "uAB9F", "uABA0", "uABA1", "uABA2", "uABA3", "uABA4", "uABA5", "uABA6",
    "uABA7", "uABA8", "uABA9", "uABAA", "uABAB", "uABAC", "uABAD", "uABAE", "uABAF", "uABB0", "uABB1", "uABB2",
    "uABB3", "uABB4", "uABB5", "uABB6", "uABB7", "uABB8", "uABB9", "uABBA", "uABBB", "uABBC", "uABBD", "uABBE",
    "uABBF", "u13F8", "u13F9", "u13FA", "u13FB", "u13FC", "u13FD", "u10D0", "u10D1", "u10D2", "u10D3", "u10D4",
    "u10D5", "u10D6", "u10D7", "u10D8", "u10D9", "u10DA", "u10DB", "u10DC", "u10DD", "u10DE", "u10DF", "u10E0",
    "u10E1", "u10E2", "u10E3", "u10E4", "u10E5", "u10E6", "u10E7", "u10E8", "u10E9", "u10EA", "u10EB", "u10EC",
    "u10ED", "u10EE", "u10EF", "u10F0", "u10F1", "u10F2", "u10F3", "u10F4", "u10F5", "u10F6", "u10F7", "u10F8",
    "u10F9", "u10FA", "u10FD", "u10FE", "u10FF", "u1E01", "u1E03", "u1E05", "u1E07", "u1E09", "u1E0B", "u1E0D",
    "u1E0F", "u1E11", "u1E13", "u1E15", "u1E17", "u1E19", "u1E1B", "u1E1D", "u1E1F", "u1E21", "u1E23", "u1E25",
    "u1E27", "u1E29", "u1E2B", "u1E2D", "u1E2F", "u1E31", "u1E33", "u1E35", "u1E37", "u1E39", "u1E3B", "u1E3D",
    "u1E3F", "u1E41", "u1E43", "u1E45", "u1E47", "u1E49", "u1E4B", "u1E4D", "u1E4F", "u1E51", "u1E53", "u1E55",
    "u1E57", "u1E59", "u1E5B", "u1E5D", "u1E5F", "u1E61", "u1E63", "u1E65", "u1E67", "u1E69", "u1E6B", "u1E6D",
    "u1E6F", "u1E71", "u1E73", "u1E75", "u1E77", "u1E79", "u1E7B", "u1E7D", "u1E7F", "u1E81", "u1E83", "u1E85",
    "u1E87", "u1E89", "u1E8B", "u1E8D", "u1E8F", "u1E91", "u1E93", "u1E95", "ß", "u1EA1", "u1EA3", "u1EA5",
    "u1EA7", "u1EA9", "u1EAB", "u1EAD", "u1EAF", "u1EB1", "u1EB3", "u1EB5", "u1EB7", "u1EB9", "u1EBB", "u1EBD",
    "u1EBF", "u1EC1", "u1EC3", "u1EC5", "u1EC7", "u1EC9", "u1ECB", "u1ECD", "u1ECF", "u1ED1", "u1ED3", "u1ED5",
    "u1ED7", "u1ED9", "u1EDB", "u1EDD", "u1EDF", "u1EE1", "u1EE3", "u1EE5", "u1EE7", "u1EE9", "u1EEB", "u1EED",
    "u1EEF", "u1EF1", "u1EF3", "u1EF5", "u1EF7", "u1EF9", "u1EFB", "u1EFD", "u1EFF", "u1F00", "u1F01", "u1F02",
    "u1F03", "u1F04", "u1F05", "u1F06", "u1F07", "u1F10", "u1F11", "u1F12", "u1F13", "u1F14", "u1F15", "u1F20",
    "u1F21", "u1F22", "u1F23", "u1F24", "u1F25", "u1F26", "u1F27", "u1F30", "u1F31", "u1F32", "u1F33", "u1F34",
    "u1F35", "u1F36", "u1F37", "u1F40", "u1F41", "u1F42", "u1F43", "u1F44", "u1F45", "u1F51", "u1F53", "u1F55",
    "u1F57", "u1F60", "u1F61", "u1F62", "u1F63", "u1F64", "u1F65", "u1F66", "u1F67", "u1F80", "u1F81", "u1F82",
    "u1F83", "u1F84", "u1F85", "u1F86", "u1F87", "u1F90", "u1F91", "u1F92", "u1F93", "u1F94", "u1F95", "u1F96",
    "u1F97", "u1FA0", "u1FA1", "u1FA2", "u1FA3", "u1FA4", "u1FA5", "u1FA6", "u1FA7", "u1FB0", "u1FB1", "u1F70",
    "u1F71", "u1FB3", "u1F72", "u1F73", "u1F74", "u1F75", "u1FC3", "u1FD0", "u1FD1", "u1F76", "u1F77", "u1FE0",
    "u1FE1", "u1F7A", "u1F7B", "u1FE5", "u1F78", "u1F79", "u1F7C", "u1F7D", "u1FF3", "u03C9", "k", "å",
    "u214E", "u2170", "u2171", "u2172", "u2173", "u2174", "u2175", "u2176", "u2177", "u2178", "u2179", "u217A",
    "u217B", "u217C", "u217D", "u217E", "u217F", "u2184", "u24D0", "u24D1", "u24D2", "u24D3", "u24D4", "u24D5",
    "u24D6", "u24D7", "u24D8", "u24D9", "u24DA", "u24DB", "u24DC", "u24DD", "u24DE", "u24DF", "u24E0", "u24E1",
    "u24E2", "u24E3", "u24E4", "u24E5", "u24E6", "u24E7", "u24E8", "u24E9", "u2C30", "u2C31", "u2C32", "u2C33",
    "u2C34", "u2C35", "u2C36", "u2C37", "u2C38", "u2C39", "u2C3A", "u2C3B", "u2C3C", "u2C3D", "u2C3E", "u2C3F",
    "u2C40", "u2C41", "u2C42", "u2C43", "u2C44", "u2C45", "u2C46", "u2C47", "u2C48", "u2C49", "u2C4A", "u2C4B",
    "u2C4C", "u2C4D", "u2C4E", "u2C4F", "u2C50", "u2C51", "u2C52", "u2C53", "u2C54", "u2C55", "u2C56", "u2C57",
    "u2C58", "u2C59", "u2C5A", "u2C5B", "u2C5C", "u2C5D", "u2C5E", "u2C5F", "u2C61", "u026B", "u1D7D", "u027D",
    "u2C68", "u2C6A", "u2C6C", "u0251", "u0271", "u0250", "u0252", "u2C73", "u2C76", "u023F", "u0240", "u2C81",
    "u2C83", "u2C85", "u2C87", "u2C89", "u2C8B", "u2C8D", "u2C8F", "u2C91", "u2C93", "u2C95", "u2C97", "u2C99",
    "u2C9B", "u2C9D", "u2C9F", "u2CA1", "u2CA3", "u2CA5", "u2CA7", "u2CA9", "u2CAB", "u2CAD", "u2CAF", "u2CB1",
    "u2CB3", "u2CB5", "u2CB7", "u2CB9", "u2CBB", "u2CBD", "u2CBF", "u2CC1", "u2CC3", "u2CC5", "u2CC7", "u2CC9",
    "u2CCB", "u2CCD", "u2CCF", "u2CD1", "u2CD3", "u2CD5", "u2CD7", "u2CD9", "u2CDB", "u2CDD", "u2CDF", "u2CE1",
    "u2CE3", "u2CEC", "u2CEE", "u2CF3", "uA641", "uA643", "uA645", "uA647", "uA649", "uA64B", "uA64D", "uA64F",
    "uA651", "uA653", "uA655", "uA657", "uA659", "uA65B", "uA65D", "uA65F", "uA661", "uA663", "uA665", "uA667",
    "uA669", "uA66B", "uA66D", "uA681", "uA683", "uA685", "uA687", "uA689", "uA68B", "uA68D", "uA68F", "uA691",
    "uA693", "uA695", "uA697", "uA699", "uA69B", "uA723", "uA725", "uA727", "uA729", "uA72B", "uA72D", "uA72F",
    "uA733", "uA735", "uA737", "uA739", "uA73B", "uA73D", "uA73F", "uA741", "uA743", "uA745", "uA747", "uA749",
    "uA74B", "uA74D", "uA74F", "uA751", "uA753", "uA755", "uA757", "uA759", "uA75B", "uA75D", "uA75F", "uA761",
    "uA763", "uA765", "uA767", "uA769", "uA76B", "uA76D", "uA76F", "uA77A", "uA77C", "u1D79", "uA77F", "uA781",
    "uA783", "uA785", "uA787", "uA78C", "u0265", "uA791", "uA793", "uA797", "uA799", "uA79B", "uA79D", "uA79F",
    "uA7A1", "uA7A3", "uA7A5", "uA7A7", "uA7A9", "u0266", "u025C", "u0261", "u026C", "u026A", "u029E", "u0287",
    "u029D", "uAB53", "uA7B5", "uA7B7", "uA7B9", "uA7BB", "uA7BD", "uA7BF", "uA7C1", "uA7C3", "uA794", "u0282",
    "u1D8E", "uA7C8", "uA7CA", "uA7D1", "uA7D7", "uA7D9", "uA7F6", "uFF41", "uFF42", "uFF43", "uFF44", "uFF45",
    "uFF46", "uFF47", "uFF48", "uFF49", "uFF4A", "uFF4B", "uFF4C", "uFF4D", "uFF4E", "uFF4F", "uFF50", "uFF51",
    "uFF52", "uFF53", "uFF54", "uFF55", "uFF56", "uFF57", "uFF58", "uFF59", "uFF5A", "u10428", "u10429", "u1042A",
    "u1042B", "u1042C", "u1042D", "u1042E", "u1042F", "u10430", "u10431", "u10432", "u10433", "u10434", "u10435", "u10436",
    "u10437", "u10438", "u10439", "u1043A", "u1043B", "u1043C", "u1043D", "u1043E", "u1043F", "u10440", "u10441", "u10442",
    "u10443", "u10444", "u10445", "u10446", "u10447", "u10448", "u10449", "u1044A", "u1044B", "u1044C", "u1044D", "u1044E",
    "u1044F", "u104D8", "u104D9", "u104DA", "u104DB", "u104DC", "u104DD", "u104DE", "u104DF", "u104E0", "u104E1", "u104E2",
    "u104E3", "u104E4", "u104E5", "u104E6", "u104E7", "u104E8", "u104E9", "u104EA", "u104EB", "u104EC", "u104ED", "u104EE",
    "u104EF", "u104F0", "u104F1", "u104F2", "u104F3", "u104F4", "u104F5", "u104F6", "u104F7", "u104F8", "u104F9", "u104FA",
    "u104FB", "u10597", "u10598", "u10599", "u1059A", "u1059B", "u1059C", "u1059D", "u1059E", "u1059F", "u105A0", "u105A1",
    "u105A3", "u105A4", "u105A5", "u105A6", "u105A7", "u105A8", "u105A9", "u105AA", "u105AB", "u105AC", "u105AD", "u105AE",
    "u105AF", "u105B0", "u105B1", "u105B3", "u105B4", "u105B5", "u105B6", "u105B7", "u105B8", "u105B9", "u105BB", "u105BC",
    "u10CC0", "u10CC1", "u10CC2", "u10CC3", "u10CC4", "u10CC5", "u10CC6", "u10CC7", "u10CC8", "u10CC9", "u10CCA", "u10CCB",
    "u10CCC", "u10CCD", "u10CCE", "u10CCF", "u10CD0", "u10CD1", "u10CD2", "u10CD3", "u10CD4", "u10CD5", "u10CD6", "u10CD7",
    "u10CD8", "u10CD9", "u10CDA", "u10CDB", "u10CDC", "u10CDD", "u10CDE", "u10CDF", "u10CE0", "u10CE1", "u10CE2", "u10CE3",
    "u10CE4", "u10CE5", "u10CE6", "u10CE7", "u10CE8", "u10CE9", "u10CEA", "u10CEB", "u10CEC", "u10CED", "u10CEE", "u10CEF",
    "u10CF0", "u10CF1", "u10CF2", "u118C0", "u118C1", "u118C2", "u118C3", "u118C4", "u118C5", "u118C6", "u118C7", "u118C8",
    "u118C9", "u118CA", "u118CB", "u118CC", "u118CD", "u118CE", "u118CF", "u118D0", "u118D1", "u118D2", "u118D3", "u118D4",
    "u118D5", "u118D6", "u118D7", "u118D8", "u118D9", "u118DA", "u118DB", "u118DC", "u118DD", "u118DE", "u118DF", "u16E60",
    "u16E61", "u16E62", "u16E63", "u16E64", "u16E65", "u16E66", "u16E67", "u16E68", "u16E69", "u16E6A", "u16E6B", "u16E6C",
    "u16E6D", "u16E6E", "u16E6F", "u16E70", "u16E71", "u16E72", "u16E73", "u16E74", "u16E75", "u16E76", "u16E77", "u16E78",
    "u16E79", "u16E7A", "u16E7B", "u16E7C", "u16E7D", "u16E7E", "u16E7F", "u1E922", "u1E923", "u1E924", "u1E925", "u1E926",
    "u1E927", "u1E928", "u1E929", "u1E92A", "u1E92B", "u1E92C", "u1E92D", "u1E92E", "u1E92F", "u1E930", "u1E931", "u1E932",
    "u1E933", "u1E934", "u1E935", "u1E936", "u1E937", "u1E938", "u1E939", "u1E93A", "u1E93B", "u1E93C", "u1E93D", "u1E93E",
    "u1E93F", "u1E940", "u1E941", "u1E942", "u1E943">>
UpperSet == {UpperChars[i] : i \in 1..Len(UpperChars)}

DigitChars == <<"0", "1", "2", "3", "4", "5", "6", "7", "8", "9">>

DigitSet == {DigitChars[i] : i \in 1..Len(DigitChars)}

IsDigit(c) == c \in DigitSet

DigitVal(c) == (CHOOSE i \in 1..Len(DigitChars) : DigitChars[i] = c) - 1

\* regexp class \w
IsWordChar(c) ==
  \/ IsDigit(c)
  \/ c = "_"
  \/ \E i \in 1..26 : UpperChars[i] = c \/ LowerChars[i] = c

\* A byte that belongs to no character.
IsRawByte(c) == Len(c) = 3 /\ SubSeq(c, 1, 1) = "x"

\* strings.ToLower goes through strings.Map, which writes U+FFFD for every
\* byte that is no character.
LowerChar(c) ==
  IF IsRawByte(c) THEN "uFFFD"
  ELSE IF c \in UpperSet
  THEN LowerChars[CHOOSE i \in 1..Len(UpperChars) : UpperChars[i] = c]
  ELSE c

\* strings.ToLower
ToLower(s) == [i \in 1..Len(s) |-> LowerChar(s[i])]

\* fmt.Sprintf("%d", n) for n >= 0
RECURSIVE Itoa(_)
Itoa(n) ==
  IF n < 10 THEN <<DigitChars[n + 1]>>
  ELSE Itoa(n \div 10) \o <<DigitChars[(n % 10) + 1]>>

\* The value of a run of digits.
RECURSIVE Atoi(_)
Atoi(s) ==
  IF Len(s) = 0 THEN 0
  ELSE 10 * Atoi(SubSeq(s, 1, Len(s) - 1)) + DigitVal(s[Len(s)])

\* math.MaxInt64
MaxInt64Digits ==
  <<"9", "2", "2", "3", "3", "7", "2", "0", "3", "6", "8", "5", "4", "7", "7", "5",
    "8", "0", "7">>

\* a > b for two runs of digits of the same length
RECURSIVE DigitsGreater(_, _)
DigitsGreater(a, b) ==
  IF Len(a) = 0 THEN FALSE
  ELSE IF a[1] # b[1] THEN DigitVal(a[1]) > DigitVal(b[1])
  ELSE DigitsGreater(Tail(a), Tail(b))

\* The run of digits without its leading zeros.
Significant(s) ==
  SubSeq(s, LeastOr({i \in 1..Len(s) : s[i] # "0"}, Len(s) + 1), Len(s))

BeyondInt64(sig) ==
  \/ Len(sig) > Len(MaxInt64Digits)
  \/ Len(sig) = Len(MaxInt64Digits) /\ DigitsGreater(sig, MaxInt64Digits)

\* fmt.Sscanf(digits, "%d", &n) on a non-empty run of digits, n an int that
\* holds 0: a number beyond int64 is an error of strconv.ParseInt, which
\* the caller drops, and n keeps its 0.
Sscanf(s) == IF BeyondInt64(Significant(s)) THEN 0 ELSE Atoi(s)

\* The characters U+0000..U+00FF in order.
Latin1Chars ==
  <<"u0000", "", "", "", "", "", "", "", "", "\t", "\n", "", "\f",
    "\r", "", "", "", "", "", "", "", "", "", "", "", "", "",
    "", "", "", "", "", " ", "!", "\"", "#", "$", "%", "&", "'", "(",
    ")", "*", "+", ",", "-", ".", "/", "0", "1", "2", "3", "4", "5", "6", "7",
    "8", "9", ":", ";", "<", "=", ">", "?", "@", "A", "B", "C", "D", "E", "F",
    "G", "H", "I", "J", "K", "L", "M", "N", "O", "P", "Q", "R", "S", "T", "U",
    "V", "W", "X", "Y", "Z", "[", "\\", "]", "^", "_", "u0060", "a", "b", "c",
    "d", "e", "f", "g", "h", "i", "j", "k", "l", "m", "n", "o", "p", "q", "r",
    "s", "t", "u", "v", "w", "x", "y", "z", "{", "|", "}", "~", "", "", "",
    "", "", "", "", "", "", "", "", "", "", "", "", "", "", "",
    "", "", "", "", "", "", "", "", "", "", "", "", "", "", "",
    " ", "¡", "¢", "£", "¤", "¥", "¦", "§", "¨", "©", "ª", "«", "¬", "­", "®",
    "¯", "°", "±", "²", "³", "´", "µ", "¶", "·", "¸", "¹", "º", "»", "¼", "½",
    "¾", "¿", "À", "Á", "Â", "Ã", "Ä", "Å", "Æ", "Ç", "È", "É", "Ê", "Ë", "Ì",
    "Í", "Î", "Ï", "Ð", "Ñ", "Ò", "Ó", "Ô", "Õ", "Ö", "×", "Ø", "Ù", "Ú", "Û",
    "Ü", "Ý", "Þ", "ß", "à", "á", "â", "ã", "ä", "å", "æ", "ç", "è", "é", "ê",
    "ë", "ì", "í", "î", "ï", "ð", "ñ", "ò", "ó", "ô", "õ", "ö", "÷", "ø", "ù",
    "ú", "û", "ü", "ý", "þ", "ÿ">>

HexUpperChars ==
  <<"0", "1", "2", "3", "4", "5", "6", "7", "8", "9", "A", "B", "C", "D", "E", "F">>
HexLowerChars ==
  <<"0", "1", "2", "3", "4", "5", "6", "7", "8", "9", "a", "b", "c", "d", "e", "f">>

IsHex(c) == \E i \in 1..16 : HexUpperChars[i] = c \/ HexLowerChars[i] = c

HexVal(c) == (CHOOSE i \in 1..16 : HexUpperChars[i] = c \/ HexLowerChars[i] = c) - 1

RECURSIVE HexString(_)
HexString(n) ==
  IF n < 16 THEN HexUpperChars[n + 1]
  ELSE HexString(n \div 16) \o HexUpperChars[(n % 16) + 1]

\* The code point of a character: its place among U+0000..U+00FF, or the
\* number its "uXXXX" form spells.
RECURSIVE HexNumber(_, _)
HexNumber(c, k) ==
  IF k < 2 THEN 0 ELSE 16 * HexNumber(c, k - 1) + HexVal(SubSeq(c, k, k))

CodePoint(c) ==
  IF Len(c) = 1 THEN (CHOOSE i \in 1..Len(Latin1Chars) : Latin1Chars[i] = c) - 1
  ELSE HexNumber(c, Len(c))

IsCodePoint(c) == Len(c) = 1 \/ SubSeq(c, 1, 1) = "u"

\* utf8.RuneLen
RuneLen(n) == IF n < 128 THEN 1 ELSE IF n < 2048 THEN 2 ELSE IF n < 65536 THEN 3 ELSE 4

\* len(s) in Go is the number of bytes of the UTF-8 encoding.  A styling tag
\* held as one element is ASCII, one byte per character.
AboveASCII == {Latin1Chars[i] : i \in 129..Len(Latin1Chars)}

ByteLen(c) ==
  IF IsRawByte(c) THEN 1
  ELSE IF Len(c) = 1 THEN (IF c \in AboveASCII THEN 2 ELSE 1)
  ELSE IF IsCodePoint(c) THEN RuneLen(CodePoint(c))
  ELSE Len(c)

RECURSIVE ByteLength(_)
ByteLength(s) == IF Len(s) = 0 THEN 0 ELSE ByteLen(s[1]) + ByteLength(Tail(s))

\* The bytes of the UTF-8 encoding of code point n >= 128.
RawByte(b) == "x" \o HexString(b)

UTF8Bytes(n) ==
  IF n < 2048 THEN <<RawByte(192 + (n \div 64)), RawByte(128 + (n % 64))>>
  ELSE IF n < 65536
  THEN <<RawByte(224 + (n \div 4096)), RawByte(128 + ((n \div 64) % 64)),
         RawByte(128 + (n % 64))>>
  ELSE <<RawByte(240 + (n \div 262144)), RawByte(128 + ((n \div 4096) % 64)),
         RawByte(128 + ((n \div 64) % 64)), RawByte(128 + (n % 64))>>

\* The bytes of one element, each an element of its own.
BytesOf(c) ==
  IF IsRawByte(c) THEN <<c>>
  ELSE IF IsCodePoint(c)
  THEN (IF CodePoint(c) < 128 THEN <<c>> ELSE UTF8Bytes(CodePoint(c)))
  ELSE [i \in 1..Len(c) |-> SubSeq(c, i, i)]

\* s[:n] for 0 <= n <= len(s): a cut inside a character leaves the first
\* bytes of that character.
RECURSIVE BytePrefix(_, _)
BytePrefix(s, n) ==
  IF Len(s) = 0 \/ n <= 0 THEN <<>>
  ELSE IF ByteLen(s[1]) <= n THEN <<s[1]>> \o BytePrefix(Tail(s), n - ByteLen(s[1]))
  ELSE SubSeq(BytesOf(s[1]), 1, n)

\* All sequences over S of length at most n.
SeqUpTo(S, n) == UNION {[1..k -> S] : k \in 0..n}

-----------------------------------------------------------------------------
(* content_type.go: BlockContentType and the classifier.                   *)

BlockContentPlain == 0
BlockContentDiff  == 1
BlockContentTable == 2
BlockContentCode  == 3
BlockContentTree  == 4
BlockContentJSON  == 5
BlockContentYAML  == 6

\* The three marker flags isDiff accumulates over the lines of the text.
hasHunkHeader(lines) ==
  \E i \in 1..Len(lines) :
     HasPrefix(lines[i], <<"@", "@">>) /\ StrContains(lines[i], <<"@", "@">>)

hasFileHeader(lines) ==
  \E i \in 1..Len(lines) :
     \/ HasPrefix(lines[i], <<"-", "-", "-", " ">>)
     \/ HasPrefix(lines[i], <<"+", "+", "+", " ">>)

additionCount(lines) ==
  Cardinality({i \in 1..Len(lines) :
     HasPrefix(lines[i], <<"+">>) /\ ~HasPrefix(lines[i], <<"+", "+", "+">>)})

deletionCount(lines) ==
  Cardinality({i \in 1..Len(lines) :
     HasPrefix(lines[i], <<"-">>) /\ ~HasPrefix(lines[i], <<"-", "-", "-">>)})

isDiffNoChangeCheck(text) ==
  LET lines == Split(text, NL)
  IN  hasHunkHeader(lines) /\ hasFileHeader(lines)

isDiff(text) ==
  LET lines == Split(text, NL)
  IN  /\ hasHunkHeader(lines)
      /\ hasFileHeader(lines)
      /\ (additionCount(lines) > 0 \/ deletionCount(lines) > 0)

\* regexp `^\|[\s\-:]+\|` on a trimmed line
isSeparatorLine(line) ==
  /\ Len(line) >= 3
  /\ line[1] = "|"
  /\ \E k \in 3..Len(line) :
        /\ line[k] = "|"
        /\ \A j \in 2..(k - 1) : line[j] \in RegexSpace \cup {"-", ":"}

isTable(text) ==
  LET lines == Split(text, NL)
      trimmed == [i \in 1..Len(lines) |-> TrimSpace(lines[i])]
      pipeCount == Cardinality({i \in 1..Len(lines) :
                      HasPrefix(trimmed[i], <<"|">>) /\ HasSuffix(trimmed[i], <<"|">>)})
      separatorLine == \E i \in 1..Len(lines) : isSeparatorLine(trimmed[i])
  IN  pipeCount >= 3 /\ separatorLine

\* The box-drawing characters U+251C, U+2514, U+2502, each one element.
TreeChars == {"u251C", "u2514", "u2502"}

isTree(text) ==
  LET lines == Split(text, NL)
      treeChars == Cardinality({i \in 1..Len(lines) :
                      \E j \in 1..Len(lines[i]) : lines[i][j] \in TreeChars})
  IN  Len(lines) > 2 /\ treeChars > Len(lines) \div 2

isJSON(text) ==
  LET trimmed == TrimSpace(text)
  IN  \/ HasPrefix(trimmed, <<"{">>) /\ HasSuffix(trimmed, <<"}">>)
      \/ HasPrefix(trimmed, <<"[">>) /\ HasSuffix(trimmed, <<"]">>)

\* The line after its leading run of \s.
AfterSpace(line) ==
  SubSeq(line, LeastOr({i \in 1..Len(line) : line[i] \notin RegexSpace}, Len(line) + 1),
         Len(line))

\* regexp `^\s*[\w\-]+:\s*.+$`
keyValuePattern(line) ==
  LET rest == AfterSpace(line)
      keyEnds == {k \in 1..Len(rest) :
                    \A j \in 1..k : IsWordChar(rest[j]) \/ rest[j] = "-"}
  IN  \E k \in keyEnds : k + 2 <= Len(rest) /\ rest[k + 1] = ":"

\* regexp `^\s*-\s+.+$`
listPattern(line) ==
  LET rest == AfterSpace(line)
  IN  Len(rest) >= 3 /\ rest[1] = "-" /\ rest[2] \in RegexSpace

isYAML(text) ==
  LET lines == Split(text, NL)
      yamlPatterns == Cardinality({i \in 1..Len(lines) :
                         keyValuePattern(lines[i]) \/ listPattern(lines[i])})
  IN  Len(lines) > 2 /\ yamlPatterns > Len(lines) \div 2

DetectBlockContentType(text) ==
  IF isDiff(text) THEN BlockContentDiff
  ELSE IF isTable(text) THEN BlockContentTable
  ELSE IF isTree(text) THEN BlockContentTree
  ELSE IF isJSON(text) THEN BlockContentJSON
  ELSE IF isYAML(text) THEN BlockContentYAML
  ELSE BlockContentPlain

-----------------------------------------------------------------------------
(* formatter_diff.go: the unified-diff hunk parser.                        *)

DiffContext == 0
DiffAdded   == 1
DiffRemoved == 2

\* End of the maximal run of digits of s that starts at position i
\* (i - 1 when s[i] is not a digit).
RECURSIVE DigitRunEnd(_, _)
DigitRunEnd(s, i) ==
  IF i <= Len(s) /\ IsDigit(s[i]) THEN DigitRunEnd(s, i + 1) ELSE i - 1

\* Position after an optional "," at position i of s.
SkipComma(s, i) == IF i <= Len(s) /\ s[i] = "," THEN i + 1 ELSE i

\* Position after `,?\d*` read from position i of s.
SkipCount(s, i) == DigitRunEnd(s, SkipComma(s, i)) + 1

\* The regexp `@@ -(\d+),?\d* \+(\d+),?\d* @@` from its second number on:
\* the first is s[a1..e1], the second starts at a2 and ends at e2.
MatchSecondNumber(s, a1, e1, a2, e2) ==
  IF e2 >= a2 /\ OccursAt(s, SkipCount(s, e2 + 1), <<" ", "@", "@">>)
  THEN [ok |-> TRUE, old |-> Sscanf(SubSeq(s, a1, e1)), new |-> Sscanf(SubSeq(s, a2, e2))]
  ELSE [ok |-> FALSE, old |-> 0, new |-> 0]

\* ... from the end q1 of `,?\d*` after the first number on.
MatchPlus(s, a1, e1, q1) ==
  IF OccursAt(s, q1, <<" ", "+">>)
  THEN MatchSecondNumber(s, a1, e1, q1 + 2, DigitRunEnd(s, q1 + 2))
  ELSE [ok |-> FALSE, old |-> 0, new |-> 0]

\* ... from its first number on, which starts at a1 and ends at e1.
MatchFirstNumber(s, a1, e1) ==
  IF e1 >= a1 THEN MatchPlus(s, a1, e1, SkipCount(s, e1 + 1))
  ELSE [ok |-> FALSE, old |-> 0, new |-> 0]

\* One attempt of the regexp at position p.
MatchHunkHeaderAt(s, p) ==
  IF OccursAt(s, p, <<"@", "@", " ", "-">>)
  THEN MatchFirstNumber(s, p + 4, DigitRunEnd(s, p + 4))
  ELSE [ok |-> FALSE, old |-> 0, new |-> 0]

\* parseHunkHeader: the leftmost match sets StartOld and StartNew; with no
\* match both keep their zero value.
HeaderMatchAt(header, p) ==
  IF p = 0 THEN [ok |-> FALSE, old |-> 0, new |-> 0] ELSE MatchHunkHeaderAt(header, p)

parseHunkHeader(header) ==
  HeaderMatchAt(header,
    LeastOr({p \in 1..Len(header) : MatchHunkHeaderAt(header, p).ok}, 0))

HunkOf(line, m) ==
  [Header |-> line, Lines |-> <<>>, StartOld |-> m.old, StartNew |-> m.new]

NewHunk(line) == HunkOf(line, parseHunkHeader(line))

\* The DiffLine made of one line inside a hunk (formatter_diff.go 111-132).
DiffLineOf(line) ==
  IF HasPrefix(line, <<"+">>) THEN [Type |-> DiffAdded, Content |-> Tail(line)]
  ELSE IF HasPrefix(line, <<"-">>) THEN [Type |-> DiffRemoved, Content |-> Tail(line)]
  ELSE IF HasPrefix(line, <<" ">>) THEN [Type |-> DiffContext, Content |-> Tail(line)]
  ELSE [Type |-> DiffContext, Content |-> line]

\* The loop of ParseHunks from line i on; cur is the open hunk (<<>> = nil,
\* <<h>> = &h) and acc the hunks closed so far.
RECURSIVE ParseHunksNoFlush(_, _, _, _)
ParseHunksNoFlush(lines, i, acc, cur) ==
  IF i > Len(lines) THEN acc
  ELSE LET line == lines[i] IN
    IF HasPrefix(line, <<"-", "-", "-">>) \/ HasPrefix(line, <<"+", "+", "+">>)
    THEN ParseHunksNoFlush(lines, i + 1, acc, cur)
    ELSE IF HasPrefix(line, <<"@", "@">>)
    THEN ParseHunksNoFlush(lines, i + 1, acc \o cur, <<NewHunk(line)>>)
    ELSE IF cur # <<>>
    THEN ParseHunksNoFlush(lines, i + 1, acc,
            <<[cur[1] EXCEPT !.Lines = Append(@, DiffLineOf(line))]>>)
    ELSE ParseHunksNoFlush(lines, i + 1, acc, cur)

RECURSIVE ParseHunksLoop(_, _, _, _)
ParseHunksLoop(lines, i, acc, cur) ==
  IF i > Len(lines) THEN acc \o cur
  ELSE LET line == lines[i] IN
    IF HasPrefix(line, <<"-", "-", "-">>) \/ HasPrefix(line, <<"+", "+", "+">>)
    THEN ParseHunksLoop(lines, i + 1, acc, cur)
    ELSE IF HasPrefix(line, <<"@", "@">>)
    THEN ParseHunksLoop(lines, i + 1, acc \o cur, <<NewHunk(line)>>)
    ELSE IF cur # <<>>
    THEN ParseHunksLoop(lines, i + 1, acc,
            <<[cur[1] EXCEPT !.Lines = Append(@, DiffLineOf(line))]>>)
    ELSE ParseHunksLoop(lines, i + 1, acc, cur)

ParseHunksDropLast(text) == ParseHunksNoFlush(Split(text, NL), 1, <<>>, <<>>)

ParseHunks(text) == ParseHunksLoop(Split(text, NL), 1, <<>>, <<>>)

-----------------------------------------------------------------------------
(* README.md (parser.go): Block, the page splitter, and content_type.go:   *)
(* the DiffParser.                                                         *)

SourceMarkdown == <<"m", "a", "r", "k", "d", "o", "w", "n">>
SourceChat     == <<"c", "h", "a", "t">>
SourceShell    == <<"s", "h", "e", "l", "l">>
SourceOther    == <<>>

LinesPerPage == 50

\* A Block value.  FullText is left out: no modelled code reads it.
MkBlock(name, text, line, pages, total, ct, pageTypes, pageMeta, src) ==
  [Name |-> name, Content |-> text, LineNum |-> line, Pages |-> pages,
   TotalPages |-> total, ContentType |-> ct, PageTypes |-> pageTypes,
   PageMeta |-> pageMeta, SourceType |-> src]

\* splitIntoPages(lines, linesPerPage), linesPerPage >= 1
splitIntoPagesNoEmptyPage(lines, linesPerPage) ==
  [k \in 1..((Len(lines) + linesPerPage - 1) \div linesPerPage) |->
      Join(SubSeq(lines, (k - 1) * linesPerPage + 1,
                  Min(k * linesPerPage, Len(lines))), <<NL>>)]

splitIntoPages(lines, linesPerPage) ==
  IF Len(lines) = 0 THEN << <<>> >>
  ELSE [k \in 1..((Len(lines) + linesPerPage - 1) \div linesPerPage) |->
          Join(SubSeq(lines, (k - 1) * linesPerPage + 1,
                      Min(k * linesPerPage, Len(lines))), <<NL>>)]

\* GetFileFromDiff: the path of the first "+++ " header, else "file".
GetFileFromDiff(text) ==
  LET lines == Split(text, NL)
      hdr == {i \in 1..Len(lines) : HasPrefix(lines[i], <<"+", "+", "+", " ">>)}
  IN  IF hdr = {} THEN <<"f", "i", "l", "e">>
      ELSE LET i == CHOOSE x \in hdr : \A y \in hdr : x <= y
               path == TrimPrefix(TrimPrefix(lines[i], <<"+", "+", "+", " ">>), <<"b", "/">>)
               tab == Index(path, <<"\t">>)
           IN  IF tab # -1 THEN SubSeq(path, 1, tab) ELSE path

DiffBlockOnePage(text) ==
  << MkBlock(<<"d", "i", "f", "f">>, text, 0, <<text>>, 1, BlockContentDiff,
             <<BlockContentDiff>>, <<>>, SourceOther) >>

\* DiffParser.Parse
DiffParserParse(text) ==
  IF DetectBlockContentType(text) # BlockContentDiff
  THEN << MkBlock(<<"d", "i", "f", "f">>, text, 0, <<text>>, 1, BlockContentPlain,
                  <<>>, <<>>, SourceOther) >>
  ELSE LET hs == ParseHunks(text) IN
    IF Len(hs) = 0
    THEN << MkBlock(<<"d", "i", "f", "f">>, text, 0, <<text>>, 1, BlockContentDiff,
                    <<BlockContentDiff>>, <<>>, SourceOther) >>
    ELSE LET f == GetFileFromDiff(text)
             filename == IF f = <<>> THEN <<"d", "i", "f", "f">> ELSE f
         IN  << MkBlock(filename, text, 0, [i \in 1..Len(hs) |-> text], Len(hs),
                        BlockContentDiff, [i \in 1..Len(hs) |-> BlockContentDiff],
                        <<>>, SourceOther) >>

-----------------------------------------------------------------------------
(* parser.go (MarkdownParser), the text parser and the todo parser.        *)

RECURSIVE StripTrailingEmpty(_)
StripTrailingEmpty(ls) ==
  IF Len(ls) > 0 /\ ls[Len(ls)] = <<>>
  THEN StripTrailingEmpty(SubSeq(ls, 1, Len(ls) - 1))
  ELSE ls

\* splitDiffIntoHunkPages
splitDiffIntoHunkPages(text) ==
  LET hs == ParseHunks(text) IN
    IF Len(hs) = 0 THEN <<text>> ELSE [i \in 1..Len(hs) |-> text]

\* createBlock, from the pagination on: the pages of the content.
BlockPages(ls, fullContent, contentType) ==
  IF contentType = BlockContentDiff THEN splitDiffIntoHunkPages(fullContent)
  ELSE splitIntoPages(ls, LinesPerPage)

\* createBlock, the Block literal.
MarkdownBlock(header, fullContent, startLine, pages, contentType) ==
  MkBlock(header, fullContent, startLine, pages, Len(pages), contentType,
          <<>>, <<>>, SourceMarkdown)

\* createBlock, once the trailing empty lines are gone.
BlockOfLines(header, ls, fullContent, startLine) ==
  MarkdownBlock(header, fullContent, startLine,
                BlockPages(ls, fullContent, DetectBlockContentType(fullContent)),
                DetectBlockContentType(fullContent))

TrimmedBlock(header, ls, startLine) ==
  BlockOfLines(header, ls, Join(ls, <<NL>>), startLine)

\* createBlock
createBlock(header, contentLines, startLine) ==
  TrimmedBlock(header, StripTrailingEmpty(contentLines), startLine)

isTopLevelHeader(line) ==
  HasPrefix(line, <<"#", " ">>) /\ ~HasPrefix(line, <<"#", "#", " ">>)

isSecondLevelHeader(line) ==
  HasPrefix(line, <<"#", "#", " ">>) /\ ~HasPrefix(line, <<"#", "#", "#", " ">>)

HeaderText(line) ==
  TrimSpace(IF isTopLevelHeader(line) THEN TrimPrefix(line, <<"#", " ">>)
            ELSE TrimPrefix(line, <<"#", "#", " ">>))

\* The loop of MarkdownParser.Parse; i is 1-based, line numbers 0-based.
\* st holds blocks, currentHeader, currentBlockLines and blockStartLine.
MarkdownStep(st, line, i) ==
  IF isTopLevelHeader(line) \/ isSecondLevelHeader(line)
  THEN [bs |-> IF st.header # <<>>
               THEN Append(st.bs, createBlock(st.header, st.cur, st.start))
               ELSE st.bs,
        header |-> HeaderText(line), cur |-> <<>>, start |-> i - 1]
  ELSE IF st.header # <<>> THEN [st EXCEPT !.cur = Append(@, line)]
  ELSE st

RECURSIVE MarkdownLoop(_, _)
MarkdownLoop(lines, n) ==
  IF n = 0 THEN [bs |-> <<>>, header |-> <<>>, cur |-> <<>>, start |-> 0]
  ELSE MarkdownStep(MarkdownLoop(lines, n - 1), lines[n], n)

MarkdownEnd(st) ==
  IF st.header # <<>> THEN Append(st.bs, createBlock(st.header, st.cur, st.start))
  ELSE st.bs

\* MarkdownParser.Parse
MarkdownParserParse(text) ==
  LET lines == Split(text, NL) IN MarkdownEnd(MarkdownLoop(lines, Len(lines)))

\* headerAtLine[n - 1]: the h1 and h2 in force after the first n lines.
RECURSIVE HeaderStateAt(_, _)
HeaderStateAt(lines, n) ==
  IF n = 0 THEN [h1 |-> <<>>, h2 |-> <<>>]
  ELSE LET prev == HeaderStateAt(lines, n - 1) IN
    IF isTopLevelHeader(lines[n])
    THEN [h1 |-> TrimSpace(TrimPrefix(lines[n], <<"#", " ">>)), h2 |-> <<>>]
    ELSE IF isSecondLevelHeader(lines[n])
    THEN [prev EXCEPT !.h2 = TrimSpace(TrimPrefix(lines[n], <<"#", "#", " ">>))]
    ELSE prev

DocumentName == <<"D", "o", "c", "u", "m", "e", "n", "t">>

Breadcrumb(state) ==
  IF state.h1 # <<>> /\ state.h2 # <<>> THEN state.h1 \o <<" ", ">", " ">> \o state.h2
  ELSE IF state.h1 # <<>> THEN state.h1
  ELSE IF state.h2 # <<>> THEN state.h2
  ELSE DocumentName

\* MarkdownParser.ParseContinuous
ParseContinuous(text, termHeight) ==
  LET linesPerPage == Min(Max(termHeight - 4, 10), 50)
      lines == StripTrailingEmpty(Split(text, NL))
  IN  IF Len(lines) = 0
      THEN << MkBlock(DocumentName, <<>>, 0, << <<>> >>, 1, BlockContentPlain,
                      <<>>, <<>>, <<>>) >>
      ELSE LET pages == splitIntoPages(lines, linesPerPage)
               pageMeta == [i \in 1..Len(pages) |->
                              IF (i - 1) * linesPerPage < Len(lines)
                              THEN Breadcrumb(HeaderStateAt(lines, (i - 1) * linesPerPage + 1))
                              ELSE <<>>]
           IN  << MkBlock(pageMeta[1], text, 0, pages, Len(pages), BlockContentPlain,
                          <<>>, pageMeta, <<>>) >>

\* extractCommandFromStyledLine: every [...] run is removed (a styling tag
\* held as one element is such a run), then the rest is trimmed.
IsTagElement(c) ==
  c \in {"[white:#303030]", "[-:-:-]", "[-:-]", "[-]", "[#808080]", "[yellow]",
         "[white:#2d5a2d]", "[white:#5a2d5a]", "[#179299:-:b]", "[yellow:-:b]",
         "[white]", "[green]", "[cyan]", "[#1e66f5]"}

\* The Go string itself: every styling tag held as one element is written
\* character by character.  j is the first such element from i on, 0 when
\* there is none.
RECURSIVE SpellTagsFrom(_, _)
SpellTagsAt(s, i, j) ==
  IF j = 0 THEN SubSeq(s, i, Len(s))
  ELSE SubSeq(s, i, j - 1) \o Chars(s[j]) \o SpellTagsFrom(s, j + 1)

SpellTagsFrom(s, i) ==
  SpellTagsAt(s, i, LeastOr({j \in i..Len(s) : IsTagElement(s[j])}, 0))

SpellTags(s) ==
  IF \A i \in 1..Len(s) : ~IsTagElement(s[i]) THEN s ELSE SpellTagsFrom(s, 1)

RECURSIVE RemoveTags(_)
RemoveTags(s) ==
  IF Len(s) = 0 THEN <<>>
  ELSE IF IsTagElement(s[1]) THEN RemoveTags(Tail(s))
  ELSE IF s[1] = "[" /\ Index(s, <<"]">>) >= 0
  THEN RemoveTags(SubSeq(s, Index(s, <<"]">>) + 2, Len(s)))
  ELSE <<s[1]>> \o RemoveTags(Tail(s))

extractCommandFromStyledLine(line) == TrimSpace(RemoveTags(line))

\* len(name) > 40 and name[:40] + "...", both in bytes
Truncate40(name) ==
  IF ByteLength(name) > 40 THEN BytePrefix(name, 40) \o <<".", ".", ".">> ELSE name

ShellWord  == <<"s", "h", "e", "l", "l">>
OutputName == <<"O", "u", "t", "p", "u", "t">>

ShellBlock(name, num, ls) ==
  MkBlock(name, Join(ls, <<NL>>), num, splitIntoPages(ls, LinesPerPage),
          Len(splitIntoPages(ls, LinesPerPage)), BlockContentPlain, <<>>, <<>>,
          SourceShell)

\* A save that keeps only the first line of the block.
SaveShellBlockFirstLine(bs, cur, curLines) ==
  IF cur # <<>> /\ Len(curLines) > 0
  THEN Append(bs, ShellBlock(cur[1], cur[2], <<curLines[1]>>)) ELSE bs

\* "Save previous block": cur is <<>> (no block) or <<name, LineNum>>.
SaveShellBlock(bs, cur, curLines) ==
  IF cur # <<>> /\ Len(curLines) > 0
  THEN Append(bs, ShellBlock(cur[1], cur[2], curLines)) ELSE bs

\* The loop of TxtParser.Parse; i is 1-based.
RECURSIVE TxtLoop(_, _, _, _, _, _)
TxtLoop(lines, i, bs, cur, curLines, blockNum) ==
  IF i > Len(lines) THEN SaveShellBlock(bs, cur, curLines)
  ELSE IF TrimSpace(lines[i]) = ShellWord THEN
    LET cmd == IF i + 1 <= Len(lines) THEN extractCommandFromStyledLine(lines[i + 1])
               ELSE <<>>
        command == Truncate40(IF cmd = <<>> THEN ShellWord ELSE cmd)
    IN  IF i + 1 <= Len(lines)
        THEN TxtLoop(lines, i + 2, SaveShellBlock(bs, cur, curLines),
                     <<command, blockNum + 1>>, <<lines[i + 1]>>, blockNum + 1)
        ELSE TxtLoop(lines, i + 1, SaveShellBlock(bs, cur, curLines),
                     <<command, blockNum + 1>>, <<>>, blockNum + 1)
  ELSE IF HasPrefix(lines[i], <<"$", " ">>) THEN
    LET rest == SubSeq(lines[i], 3, Len(lines[i]))
        idx == Index(rest, <<" ", "(">>)
        name == Truncate40(IF idx > 0 THEN SubSeq(rest, 1, idx) ELSE rest)
    IN  TxtLoop(lines, i + 1, SaveShellBlock(bs, cur, curLines),
                <<name, blockNum + 1>>, <<lines[i]>>, blockNum + 1)
  ELSE IF cur # <<>>
  THEN TxtLoop(lines, i + 1, bs, cur, Append(curLines, lines[i]), blockNum)
  ELSE IF TrimSpace(lines[i]) # <<>>
  THEN TxtLoop(lines, i + 1, bs, <<OutputName, blockNum + 1>>, <<lines[i]>>,
               blockNum + 1)
  ELSE TxtLoop(lines, i + 1, bs, cur, curLines, blockNum)

\* A parse without the "If no blocks found" fallback.
TxtParserParseNoFallback(text) == TxtLoop(Split(text, NL), 1, <<>>, <<>>, <<>>, 0)

\* TxtParser.Parse
TxtParserParse(text) ==
  LET bs == TxtLoop(Split(text, NL), 1, <<>>, <<>>, <<>>, 0) IN
    IF Len(bs) = 0 /\ TrimSpace(text) # <<>>
    THEN << MkBlock(OutputName, text, 1, splitIntoPages(Split(text, NL), LinesPerPage),
                    Len(splitIntoPages(Split(text, NL), LinesPerPage)),
                    BlockContentPlain, <<>>, <<>>, SourceShell) >>
    ELSE bs

-----------------------------------------------------------------------------
(* encoding/json: the decoder behind json.Unmarshal.                       *)
(*                                                                         *)
(* A decoded value is a record: kind is "null", "bool", "number", "string",*)
(* "array" or "object"; str holds the characters of a string, the token of *)
(* a number and the token of a literal; items holds the elements of an     *)
(* array, and the members [key, val] of an object in the order of the text.*)
(* A decoding step returns [end, val]: end is the position after the value,*)
(* 0 when the text is no JSON there.                                       *)

JSONValue(kind, str, items) == [kind |-> kind, str |-> str, items |-> items]

JSONMissing == JSONValue("none", <<>>, <<>>)
JSONInvalid == JSONValue("invalid", <<>>, <<>>)

JSONResult(end, val) == [end |-> end, val |-> val]

JSONFail == JSONResult(0, JSONInvalid)

\* scanner.go isSpace
JSONSpace == {" ", "\t", "\r", "\n"}

SkipSpace(s, p) == LeastOr({i \in p..Len(s) : s[i] \notin JSONSpace}, Len(s) + 1)

\* The characters below U+0020, which a string may not hold unescaped.
JSONControl ==
  {"u0000", "", "", "", "", "", "", "", "", "\t", "\n", "", "\f",
   "\r", "", "", "", "", "", "", "", "", "", "", "", "", "", "",
   "", "", "", ""}

\* The character of code point n.
CharOfCode(n) ==
  IF n < 256 THEN Latin1Chars[n + 1]
  ELSE IF n < 4096 THEN "u0" \o HexString(n)
  ELSE "u" \o HexString(n)

\* decode.go getu4: s holds \uXXXX at position p
IsU4(s, p) ==
  /\ p + 5 <= Len(s) /\ s[p] = "\\" /\ s[p + 1] = "u"
  /\ \A k \in 2..5 : IsHex(s[p + k])

U4(s, p) ==
  4096 * HexVal(s[p + 2]) + 256 * HexVal(s[p + 3]) + 16 * HexVal(s[p + 4])
    + HexVal(s[p + 5])

IsHighSurrogate(r) == 55296 <= r /\ r < 56320
IsLowSurrogate(r)  == 56320 <= r /\ r < 57344

\* utf16.DecodeRune
DecodeRune(r1, r2) == (r1 - 55296) * 1024 + (r2 - 56320) + 65536

ReplacementChar == "uFFFD"

\* decode.go unquoteBytes: utf8.DecodeRune gives U+FFFD, one byte long, for
\* a byte that belongs to no character, and the rune is written to the
\* result.
CoerceRune(c) == IF IsRawByte(c) THEN ReplacementChar ELSE c

CoerceUTF8(s) == [i \in 1..Len(s) |-> CoerceRune(s[i])]

\* decode.go unquoteBytes, the escapes with one character after the
\* backslash.
SimpleEscapes == {"\"", "\\", "/", "b", "f", "n", "r", "t"}

EscapedChar(c) ==
  IF c = "b" THEN Latin1Chars[9]
  ELSE IF c = "f" THEN "\f"
  ELSE IF c = "n" THEN "\n"
  ELSE IF c = "r" THEN "\r"
  ELSE IF c = "t" THEN "\t"
  ELSE c

RECURSIVE JSONStringFrom(_, _, _)

\* \uXXXX at position i: a surrogate pair is one character, a surrogate
\* without its partner is U+FFFD.
JSONUnicodeAt(s, i, acc) ==
  IF IsHighSurrogate(U4(s, i)) /\ IsU4(s, i + 6) /\ IsLowSurrogate(U4(s, i + 6))
  THEN JSONStringFrom(s, i + 12,
                      Append(acc, CharOfCode(DecodeRune(U4(s, i), U4(s, i + 6)))))
  ELSE IF IsHighSurrogate(U4(s, i)) \/ IsLowSurrogate(U4(s, i))
  THEN JSONStringFrom(s, i + 6, Append(acc, ReplacementChar))
  ELSE JSONStringFrom(s, i + 6, Append(acc, CharOfCode(U4(s, i))))

JSONEscapeAt(s, i, acc) ==
  IF i + 1 > Len(s) THEN JSONFail
  ELSE IF s[i + 1] \in SimpleEscapes
  THEN JSONStringFrom(s, i + 2, Append(acc, EscapedChar(s[i + 1])))
  ELSE IF IsU4(s, i) THEN JSONUnicodeAt(s, i, acc)
  ELSE JSONFail

\* The string whose opening quote has been read, from position i on.
JSONStringFrom(s, i, acc) ==
  IF i > Len(s) THEN JSONFail
  ELSE IF s[i] = "\"" THEN JSONResult(i + 1, JSONValue("string", acc, <<>>))
  ELSE IF s[i] = "\\" THEN JSONEscapeAt(s, i, acc)
  ELSE IF s[i] \in JSONControl THEN JSONFail
  ELSE JSONStringFrom(s, i + 1, Append(acc, CoerceRune(s[i])))

\* A string without a backslash is the text between its quotes, each byte
\* that belongs to no character replaced by U+FFFD.
JSONPlainString(s, p, q) ==
  IF \E i \in (p + 1)..(q - 1) : s[i] \in JSONControl THEN JSONFail
  ELSE JSONResult(q + 1, JSONValue("string", CoerceUTF8(SubSeq(s, p + 1, q - 1)), <<>>))

JSONStringTo(s, p, q) ==
  IF q # 0 /\ \A i \in (p + 1)..(q - 1) : s[i] # "\\"
  THEN JSONPlainString(s, p, q)
  ELSE JSONStringFrom(s, p + 1, <<>>)

JSONStringAt(s, p) ==
  IF p <= Len(s) /\ s[p] = "\""
  THEN JSONStringTo(s, p, LeastOr({i \in (p + 1)..Len(s) : s[i] = "\""}, 0))
  ELSE JSONFail

JSONStringEnd(s, p) == JSONStringAt(s, p).end

\* The position after the run of digits that starts at position p (p itself
\* when there is none).
DigitsEnd(s, p) == LeastOr({i \in p..Len(s) : ~IsDigit(s[i])}, Len(s) + 1)

\* scanner.go, a number: -? (0 | [1-9][0-9]*) (\.[0-9]+)? ([eE][+-]?[0-9]+)?
\* Each step takes the position the step before it reached, 0 for "no
\* number".
JSONIntEnd(s, p) ==
  IF p > Len(s) THEN 0
  ELSE IF s[p] = "0" THEN p + 1
  ELSE IF IsDigit(s[p]) THEN DigitsEnd(s, p)
  ELSE 0

JSONDigitsFrom(s, d) == IF DigitsEnd(s, d) > d THEN DigitsEnd(s, d) ELSE 0

JSONFracEnd(s, q) ==
  IF q = 0 THEN 0
  ELSE IF q <= Len(s) /\ s[q] = "." THEN JSONDigitsFrom(s, q + 1)
  ELSE q

JSONExpEnd(s, q) ==
  IF q = 0 THEN 0
  ELSE IF q <= Len(s) /\ s[q] \in {"e", "E"}
  THEN JSONDigitsFrom(s, IF q + 1 <= Len(s) /\ s[q + 1] \in {"+", "-"}
                         THEN q + 2 ELSE q + 1)
  ELSE q

JSONNumberEnd(s, p) ==
  JSONExpEnd(s, JSONFracEnd(s, JSONIntEnd(s, IF p <= Len(s) /\ s[p] = "-"
                                             THEN p + 1 ELSE p)))

JSONNumberTo(s, p, e) ==
  IF e = 0 THEN JSONFail
  ELSE JSONResult(e, JSONValue("number", SubSeq(s, p, e - 1), <<>>))

JSONLiteralAt(s, p) ==
  IF OccursAt(s, p, <<"n", "u", "l", "l">>)
  THEN JSONResult(p + 4, JSONValue("null", <<"n", "u", "l", "l">>, <<>>))
  ELSE IF OccursAt(s, p, <<"t", "r", "u", "e">>)
  THEN JSONResult(p + 4, JSONValue("bool", <<"t", "r", "u", "e">>, <<>>))
  ELSE IF OccursAt(s, p, <<"f", "a", "l", "s", "e">>)
  THEN JSONResult(p + 5, JSONValue("bool", <<"f", "a", "l", "s", "e">>, <<>>))
  ELSE JSONFail

RECURSIVE JSONValueAt(_, _)
RECURSIVE JSONMembers(_, _, _)
RECURSIVE JSONElements(_, _, _)

\* After a member: "}" closes the object, "," has another member follow.
JSONMemberNext(s, n, acc) ==
  IF n > Len(s) THEN JSONFail
  ELSE IF s[n] = "}" THEN JSONResult(n + 1, JSONValue("object", <<>>, acc))
  ELSE IF s[n] = "," THEN JSONMembers(s, SkipSpace(s, n + 1), acc)
  ELSE JSONFail

JSONMemberValue(s, key, v, acc) ==
  IF v.end = 0 THEN JSONFail
  ELSE JSONMemberNext(s, SkipSpace(s, v.end),
                      Append(acc, [key |-> key.val.str, val |-> v.val]))

JSONMemberColon(s, key, c, acc) ==
  IF c > Len(s) \/ s[c] # ":" THEN JSONFail
  ELSE JSONMemberValue(s, key, JSONValueAt(s, SkipSpace(s, c + 1)), acc)

JSONMemberKey(s, key, acc) ==
  IF key.end = 0 THEN JSONFail
  ELSE JSONMemberColon(s, key, SkipSpace(s, key.end), acc)

\* The members of an object from position q, where a key starts.
JSONMembers(s, q, acc) == JSONMemberKey(s, JSONStringAt(s, q), acc)

JSONObjectFrom(s, q) ==
  IF q <= Len(s) /\ s[q] = "}"
  THEN JSONResult(q + 1, JSONValue("object", <<>>, <<>>))
  ELSE JSONMembers(s, q, <<>>)

JSONElementNext(s, n, acc) ==
  IF n > Len(s) THEN JSONFail
  ELSE IF s[n] = "]" THEN JSONResult(n + 1, JSONValue("array", <<>>, acc))
  ELSE IF s[n] = "," THEN JSONElements(s, SkipSpace(s, n + 1), acc)
  ELSE JSONFail

JSONElementValue(s, v, acc) ==
  IF v.end = 0 THEN JSONFail
  ELSE JSONElementNext(s, SkipSpace(s, v.end), Append(acc, v.val))

\* The elements of an array from position q, where a value starts.
JSONElements(s, q, acc) == JSONElementValue(s, JSONValueAt(s, q), acc)

JSONArrayFrom(s, q) ==
  IF q <= Len(s) /\ s[q] = "]"
  THEN JSONResult(q + 1, JSONValue("array", <<>>, <<>>))
  ELSE JSONElements(s, q, <<>>)

\* The value that starts at position p of s.
JSONValueAt(s, p) ==
  IF p > Len(s) THEN JSONFail
  ELSE IF s[p] = "{" THEN JSONObjectFrom(s, SkipSpace(s, p + 1))
  ELSE IF s[p] = "[" THEN JSONArrayFrom(s, SkipSpace(s, p + 1))
  ELSE IF s[p] = "\"" THEN JSONStringAt(s, p)
  ELSE IF s[p] = "-" \/ IsDigit(s[p]) THEN JSONNumberTo(s, p, JSONNumberEnd(s, p))
  ELSE JSONLiteralAt(s, p)

\* The position after the value that starts at position p of s, 0 when no
\* value starts there.
JSONValueEnd(s, p) == JSONValueAt(s, p).end

\* The position after the object whose "{" is at position p of s, 0 when no
\* object starts there.
JSONObjectEnd(s, p) ==
  IF p >= 1 /\ p <= Len(s) /\ s[p] = "{" THEN JSONValueAt(s, p).end ELSE 0

\* checkValid: the text is one value between optional white space.
JSONTopLevel(text, v) ==
  IF v.end # 0 /\ SkipSpace(text, v.end) = Len(text) + 1 THEN v.val
  ELSE JSONInvalid

JSONDecode(text) == JSONTopLevel(text, JSONValueAt(text, SkipSpace(text, 1)))

\* map lookup after decoding into map[string]interface{}: of two members
\* with one key the later one stays.
JSONHas(v, key) ==
  v.kind = "object" /\ \E i \in 1..Len(v.items) : v.items[i].key = key

JSONGet(v, key) ==
  IF JSONHas(v, key)
  THEN v.items[GreatestOr({i \in 1..Len(v.items) : v.items[i].key = key}, 0)].val
  ELSE JSONMissing

\* x.(string) with the zero value for any other type
JSONStringOr(v) == IF v.kind = "string" THEN v.str ELSE <<>>

\* strconv.ParseFloat(token, 64) on a number token: the digits of the
\* integer and the fraction part, and the exponent.
NumberIntStart(tok) == IF tok[1] = "-" THEN 2 ELSE 1

NumberIntLen(tok) == DigitsEnd(tok, NumberIntStart(tok)) - NumberIntStart(tok)

NumberMantissaEnd(tok) ==
  LeastOr({i \in 1..Len(tok) : tok[i] \in {"e", "E"}}, Len(tok) + 1)

NumberDigits(tok) == SelectSeq(SubSeq(tok, 1, NumberMantissaEnd(tok) - 1), IsDigit)

NumberExpDigits(tok) ==
  SelectSeq(SubSeq(tok, NumberMantissaEnd(tok) + 1, Len(tok)), IsDigit)

StripZeros(ds) ==
  SubSeq(ds, LeastOr({i \in 1..Len(ds) : ds[i] # "0"}, Len(ds) + 1), Len(ds))

\* The exponent saturates: one of more than five digits is beyond every
\* number token there is room for, whatever its mantissa.
ExpMagnitude(ds) == IF Len(ds) > 5 THEN 100000 ELSE Atoi(ds)

NumberExp(tok) ==
  IF NumberMantissaEnd(tok) >= Len(tok) THEN 0
  ELSE IF tok[NumberMantissaEnd(tok) + 1] = "-"
  THEN 0 - ExpMagnitude(StripZeros(NumberExpDigits(tok)))
  ELSE ExpMagnitude(StripZeros(NumberExpDigits(tok)))

\* The decimal digits of 2^1024 - 2^970, the least magnitude that rounds to
\* infinity (309 digits).
FloatLimitDigits ==
  <<"1", "7", "9", "7", "6", "9", "3", "1", "3", "4", "8", "6", "2", "3", "1",
    "5", "8", "0", "7", "9", "3", "7", "2", "8", "9", "7", "1", "4", "0", "5",
    "3", "0", "3", "4", "1", "5", "0", "7", "9", "9", "3", "4", "1", "3", "2",
    "7", "1", "0", "0", "3", "7", "8", "2", "6", "9", "3", "6", "1", "7", "3",
    "7", "7", "8", "9", "8", "0", "4", "4", "4", "9", "6", "8", "2", "9", "2",
    "7", "6", "4", "7", "5", "0", "9", "4", "6", "6", "4", "9", "0", "1", "7",
    "9", "7", "7", "5", "8", "7", "2", "0", "7", "0", "9", "6", "3", "3", "0",
    "2", "8", "6", "4", "1", "6", "6", "9", "2", "8", "8", "7", "9", "1", "0",
    "9", "4", "6", "5", "5", "5", "5", "4", "7", "8", "5", "1", "9", "4", "0",
    "4", "0", "2", "6", "3", "0", "6", "5", "7", "4", "8", "8", "6", "7", "1",
    "5", "0", "5", "8", "2", "0", "6", "8", "1", "9", "0", "8", "9", "0", "2",
    "0", "0", "0", "7", "0", "8", "3", "8", "3", "6", "7", "6", "2", "7", "3",
    "8", "5", "4", "8", "4", "5", "8", "1", "7", "7", "1", "1", "5", "3", "1",
    "7", "6", "4", "4", "7", "5", "7", "3", "0", "2", "7", "0", "0", "6", "9",
    "8", "5", "5", "5", "7", "1", "3", "6", "6", "9", "5", "9", "6", "2", "2",
    "8", "4", "2", "9", "1", "4", "8", "1", "9", "8", "6", "0", "8", "3", "4",
    "9", "3", "6", "4", "7", "5", "2", "9", "2", "7", "1", "9", "0", "7", "4",
    "1", "6", "8", "4", "4", "4", "3", "6", "5", "5", "1", "0", "7", "0", "4",
    "3", "4", "2", "7", "1", "1", "5", "5", "9", "6", "9", "9", "5", "0", "8",
    "0", "9", "3", "0", "4", "2", "8", "8", "0", "1", "7", "7", "9", "0", "4",
    "1", "7", "4", "4", "9", "7", "7", "9", "2">>

DigitOr0(ds, i) == IF i <= Len(ds) THEN DigitVal(ds[i]) ELSE 0

\* 0.ds >= 0.limit as decimal fractions
FractionAtLeast(ds, limit, firstDiff) ==
  firstDiff = 0 \/ DigitOr0(ds, firstDiff) > DigitOr0(limit, firstDiff)

DigitsAtLeast(ds, limit) ==
  FractionAtLeast(ds, limit,
    LeastOr({i \in 1..(IF Len(ds) > Len(limit) THEN Len(ds) ELSE Len(limit)) :
               DigitOr0(ds, i) # DigitOr0(limit, i)}, 0))

\* The number is 0.sig * 10^mag with sig starting with a digit other than 0.
MagnitudeOverflows(sig, mag) ==
  mag > 309 \/ (mag = 309 /\ DigitsAtLeast(sig, FloatLimitDigits))

\* ParseFloat returns ErrRange: the magnitude rounds to infinity.
FloatOverflows(tok) ==
  /\ StripZeros(NumberDigits(tok)) # <<>>
  /\ MagnitudeOverflows(StripZeros(NumberDigits(tok)),
       NumberIntLen(tok) + NumberExp(tok)
         - (Len(NumberDigits(tok)) - Len(StripZeros(NumberDigits(tok)))))

\* int(x) of the float64 x of a number token: the integer part, toward
\* zero.  Tokens have at most 15 significant digits and an integer part
\* below 10^9.
IntegerDigits(ds, point) ==
  IF point <= 0 THEN <<>>
  ELSE IF point <= Len(ds) THEN SubSeq(ds, 1, point)
  ELSE ds \o [i \in 1..(point - Len(ds)) |-> "0"]

NumberToInt(tok) ==
  (IF tok[1] = "-" THEN -1 ELSE 1)
    * Atoi(StripZeros(IntegerDigits(NumberDigits(tok),
                                    NumberIntLen(tok) + NumberExp(tok))))

\* x.(float64) converted to int, 0 for any other type
JSONIntOr0(v) == IF v.kind = "number" THEN NumberToInt(v.str) ELSE 0

\* Decoding into interface{} fails on a number that overflows float64.
RECURSIVE NumbersFit(_)
NumbersFit(v) ==
  IF v.kind = "number" THEN ~FloatOverflows(v.str)
  ELSE IF v.kind = "array" THEN \A i \in 1..Len(v.items) : NumbersFit(v.items[i])
  ELSE IF v.kind = "object"
  THEN \A i \in 1..Len(v.items) : NumbersFit(v.items[i].val)
  ELSE TRUE

\* json.Unmarshal([]byte(line), &m) == nil for a map[string]interface{} m:
\* the line is one JSON object whose numbers fit float64, or the literal
\* null (which leaves the map nil).
UnmarshalsIntoMap(line) ==
  /\ JSONDecode(line).kind \in {"object", "null"}
  /\ NumbersFit(JSONDecode(line))

-----------------------------------------------------------------------------
\* reader.go TodoParser: json.Unmarshal([]byte(content), &todos) into a
\* []TodoItem.  valid is whether Unmarshal returned no error; an item keeps
\* Content and Status.
NoTodos == [valid |-> FALSE, items |-> <<>>]

TodoItem(c, st) == [Content |-> c, Status |-> st]

\* encoding/json fold.go: a key names a struct field when the two are equal
\* after folding; beyond the ASCII letters, U+017F folds to S and U+212A
\* to K.
FoldChar(c) ==
  IF \E i \in 1..26 : LowerChars[i] = c
  THEN UpperChars[CHOOSE i \in 1..26 : LowerChars[i] = c]
  ELSE IF c = "u017F" THEN "S"
  ELSE IF c = "u212A" THEN "K"
  ELSE c

FoldName(key) == [i \in 1..Len(key) |-> FoldChar(key[i])]

\* The json tags of TodoItem (content, status, activeForm), folded.
TodoFieldNames == {<<"C", "O", "N", "T", "E", "N", "T">>, <<"S", "T", "A", "T", "U", "S">>, <<"A", "C", "T", "I", "V", "E", "F", "O", "R", "M">>}

\* A member the decoder cannot store: it names a field, all of them strings,
\* and its value is neither a string nor null.
TodoMemberFails(m) ==
  FoldName(m.key) \in TodoFieldNames /\ m.val.kind \notin {"string", "null"}

\* An element of the array is an object or null.
TodoElementFails(v) ==
  \/ v.kind \notin {"object", "null"}
  \/ \E i \in 1..Len(v.items) : TodoMemberFails(v.items[i])

\* The field after decoding the members in order: the string of the last
\* member that names it and holds a string, "" when there is none.
TodoFieldAt(v, k) == IF k = 0 THEN <<>> ELSE v.items[k].val.str

TodoField(v, name) ==
  TodoFieldAt(v, GreatestOr({i \in 1..Len(v.items) :
                               /\ FoldName(v.items[i].key) = name
                               /\ v.items[i].val.kind = "string"}, 0))

TodoItemOf(v) == TodoItem(TodoField(v, <<"C", "O", "N", "T", "E", "N", "T">>), TodoField(v, <<"S", "T", "A", "T", "U", "S">>))

TodosOf(v) ==
  IF v.kind = "null" THEN [valid |-> TRUE, items |-> <<>>]
  ELSE IF v.kind = "array" /\ \A i \in 1..Len(v.items) : ~TodoElementFails(v.items[i])
  THEN [valid |-> TRUE, items |-> [i \in 1..Len(v.items) |-> TodoItemOf(v.items[i])]]
  ELSE NoTodos

DecodeTodos(text) == TodosOf(JSONDecode(text))

\* TodoParser.Parse from the json.Unmarshal on.
TodoLine(t) ==
  (IF t.Status = <<"c", "o", "m", "p", "l", "e", "t", "e", "d">> THEN <<"[green]", "u2713", "[-]", " ">>
   ELSE IF t.Status = <<"i", "n", "_", "p", "r", "o", "g", "r", "e", "s", "s">> THEN <<"[cyan]", "u2192", "[-]", " ">>
   ELSE <<"[#808080]", "u25CB", "[-]", " ">>) \o t.Content \o <<NL>>

RECURSIVE TodoLines(_)
TodoLines(ts) == IF Len(ts) = 0 THEN <<>> ELSE TodoLine(ts[1]) \o TodoLines(Tail(ts))

TodoParserParse(td) ==
  IF ~td.valid \/ Len(td.items) = 0 THEN <<>>
  ELSE LET completed == Cardinality({i \in 1..Len(td.items) :
                                       td.items[i].Status = <<"c", "o", "m", "p", "l", "e", "t", "e", "d">>})
           ratio == Itoa(completed) \o <<"/">> \o Itoa(Len(td.items))
           blockContent ==
             <<"[yellow]", "t", "o", "d", "o", "s", "[white]", " ", "(">> \o ratio
               \o <<" ", "c", "o", "m", "p", "l", "e", "t", "e", "d", ")", NL, NL>>
               \o TodoLines(td.items)
       IN  << MkBlock(<<"[yellow]", "t", "o", "d", "o", "s", "[-]", " ", "[#808080]">>
                        \o ratio \o <<"[-]">>,
                      blockContent, 0, <<blockContent>>, 1, BlockContentPlain,
                      <<>>, <<>>, SourceOther) >>

-----------------------------------------------------------------------------
(* parser_jsonl.go: transcript lines, turns and the JSONL parser.          *)
(*                                                                         *)
(* A transcript line is kept as the outcome of trimming and json.Unmarshal:*)
(*   raw      "blank" (empty after TrimSpace), "invalid" (Unmarshal fails) *)
(*            or "json"                                                    *)
(*   type     msg["type"] as a string ("" when absent or no string)        *)
(*   content  message.content: kind "none" (no message map / no content),  *)
(*            "string" (text) or "array" (items with type, text, content)  *)
(*   tur      toolUseResult: present, hasPatchKey / patch (structuredPatch)*)
(*            hasNewTodos (newTodos), hasStdout / stdout (a string),       *)
(*            file (a map, with its filePath or ""), filenames (an array   *)
(*            of count entries, numFiles when hasNumFiles holds a number), *)
(*            hasFilePath / filePath (a string, "" when absent)            *)

NoContent        == [kind |-> "none", text |-> <<>>, items |-> <<>>]
StringContent(t) == [kind |-> "string", text |-> t, items |-> <<>>]
ArrayContent(is) == [kind |-> "array", text |-> <<>>, items |-> is]
\* A content item as a transcript writes it: the key "text" on a text item
\* only (hasText), the key "content" on a tool result.
Item(ty, t, c) ==
  [type |-> ty, text |-> t, hasText |-> ty = "text", content |-> c]

NoFile      == [present |-> FALSE, filePath |-> <<>>]
NoFilenames == [present |-> FALSE, count |-> 0, hasNumFiles |-> FALSE, numFiles |-> 0]

ToolUseResult(hasPatchKey, patch, hasFilePath, filePath, hasStdout, stdout) ==
  [present |-> TRUE, hasPatchKey |-> hasPatchKey, patch |-> patch,
   hasNewTodos |-> FALSE, hasFilePath |-> hasFilePath, filePath |-> filePath,
   hasStdout |-> hasStdout, stdout |-> stdout, file |-> NoFile,
   filenames |-> NoFilenames]

NoToolUseResult ==
  [ToolUseResult(FALSE, <<>>, FALSE, <<>>, FALSE, <<>>) EXCEPT !.present = FALSE]

Msg(raw, ty, c, tur) == [raw |-> raw, type |-> ty, content |-> c, tur |-> tur]

TurnPart(ty, c, meta) == [Type |-> ty, Content |-> c, Meta |-> meta]

\* json.Unmarshal([]byte(line), &msg) and the type assertions of the parser
\* on the map: what a line of a transcript file is kept as.

\* msg["type"].(string): "" when absent or no string, the type the parser
\* tells apart, "other" for every other string.
TypeName(v) ==
  IF v.kind # "string" THEN ""
  ELSE IF v.str = <<"u", "s", "e", "r">> THEN "user"
  ELSE IF v.str = <<"a", "s", "s", "i", "s", "t", "a", "n", "t">> THEN "assistant"
  ELSE IF v.str = <<"s", "y", "s", "t", "e", "m">> THEN "system"
  ELSE IF v.str = <<"s", "u", "m", "m", "a", "r", "y">> THEN "summary"
  ELSE "other"

\* itemMap["type"].(string)
ItemTypeName(v) ==
  IF v.kind # "string" THEN ""
  ELSE IF v.str = <<"t", "e", "x", "t">> THEN "text"
  ELSE IF v.str = <<"t", "o", "o", "l", "_", "r", "e", "s", "u", "l", "t">> THEN "tool_result"
  ELSE IF v.str = <<"t", "o", "o", "l", "_", "u", "s", "e">> THEN "tool_use"
  ELSE "other"

IsJSONObject(v) == v.kind = "object"
IsJSONString(v) == v.kind = "string"

ItemOf(v) ==
  [type |-> ItemTypeName(JSONGet(v, <<"t", "y", "p", "e">>)),
   text |-> JSONStringOr(JSONGet(v, <<"t", "e", "x", "t">>)),
   hasText |-> JSONGet(v, <<"t", "e", "x", "t">>).kind = "string",
   content |-> JSONStringOr(JSONGet(v, <<"c", "o", "n", "t", "e", "n", "t">>))]

ItemsOf(items) ==
  [i \in 1..Len(SelectSeq(items, IsJSONObject)) |->
     ItemOf(SelectSeq(items, IsJSONObject)[i])]

\* message["content"] of the map msg["message"]
ContentOf(c) ==
  IF c.kind = "string" THEN StringContent(c.str)
  ELSE IF c.kind = "array" THEN ArrayContent(ItemsOf(c.items))
  ELSE NoContent

MessageContentOf(message) ==
  IF message.kind = "object" THEN ContentOf(JSONGet(message, <<"c", "o", "n", "t", "e", "n", "t">>))
  ELSE NoContent

StringsOf(items) ==
  [i \in 1..Len(SelectSeq(items, IsJSONString)) |->
     SelectSeq(items, IsJSONString)[i].str]

HunkLinesOf(l) == IF l.kind = "array" THEN StringsOf(l.items) ELSE <<>>

PatchHunkOf(h) ==
  [isMap |-> h.kind = "object",
   oldStart |-> JSONIntOr0(JSONGet(h, <<"o", "l", "d", "S", "t", "a", "r", "t">>)),
   oldLines |-> JSONIntOr0(JSONGet(h, <<"o", "l", "d", "L", "i", "n", "e", "s">>)),
   newStart |-> JSONIntOr0(JSONGet(h, <<"n", "e", "w", "S", "t", "a", "r", "t">>)),
   newLines |-> JSONIntOr0(JSONGet(h, <<"n", "e", "w", "L", "i", "n", "e", "s">>)),
   lines |-> HunkLinesOf(JSONGet(h, <<"l", "i", "n", "e", "s">>))]

PatchOf(p) ==
  IF p.kind = "array" THEN [i \in 1..Len(p.items) |-> PatchHunkOf(p.items[i])] ELSE <<>>

FileOf(f) ==
  [present |-> f.kind = "object",
   filePath |-> JSONStringOr(JSONGet(f, <<"f", "i", "l", "e", "P", "a", "t", "h">>))]

FilenamesOf(names, numFiles) ==
  [present |-> names.kind = "array",
   count |-> Len(names.items),
   hasNumFiles |-> numFiles.kind = "number",
   numFiles |-> JSONIntOr0(numFiles)]

ToolUseResultOf(t) ==
  IF t.kind # "object" THEN NoToolUseResult
  ELSE [present |-> TRUE,
        hasPatchKey |-> JSONHas(t, <<"s", "t", "r", "u", "c", "t", "u", "r", "e", "d", "P", "a", "t", "c", "h">>),
        patch |-> PatchOf(JSONGet(t, <<"s", "t", "r", "u", "c", "t", "u", "r", "e", "d", "P", "a", "t", "c", "h">>)),
        hasNewTodos |-> JSONHas(t, <<"n", "e", "w", "T", "o", "d", "o", "s">>),
        hasFilePath |-> JSONGet(t, <<"f", "i", "l", "e", "P", "a", "t", "h">>).kind = "string",
        filePath |-> JSONStringOr(JSONGet(t, <<"f", "i", "l", "e", "P", "a", "t", "h">>)),
        hasStdout |-> JSONGet(t, <<"s", "t", "d", "o", "u", "t">>).kind = "string",
        stdout |-> JSONStringOr(JSONGet(t, <<"s", "t", "d", "o", "u", "t">>)),
        file |-> FileOf(JSONGet(t, <<"f", "i", "l", "e">>)),
        filenames |-> FilenamesOf(JSONGet(t, <<"f", "i", "l", "e", "n", "a", "m", "e", "s">>), JSONGet(t, <<"n", "u", "m", "F", "i", "l", "e", "s">>))]

MsgOf(v) ==
  Msg("json", TypeName(JSONGet(v, <<"t", "y", "p", "e">>)),
      MessageContentOf(JSONGet(v, <<"m", "e", "s", "s", "a", "g", "e">>)),
      ToolUseResultOf(JSONGet(v, <<"t", "o", "o", "l", "U", "s", "e", "R", "e", "s", "u", "l", "t">>)))

\* One line of the file: trimmed, passed over when empty or when Unmarshal
\* fails.
DecodeTrimmed(line) ==
  IF line = <<>> THEN Msg("blank", "", NoContent, NoToolUseResult)
  ELSE IF ~UnmarshalsIntoMap(line) THEN Msg("invalid", "", NoContent, NoToolUseResult)
  ELSE MsgOf(JSONDecode(line))

DecodeLine(line) == DecodeTrimmed(TrimSpace(line))

\* strings.Split(content, "\n") with each line decoded
DecodeLines(text) ==
  [i \in 1..Len(Split(text, NL)) |-> DecodeLine(Split(text, NL)[i])]

\* isToolResultMessage
isToolResultMessage(msg) ==
  /\ msg.content.kind = "array"
  /\ \E i \in 1..Len(msg.content.items) : msg.content.items[i].type = "tool_result"

\* hasStructuredPatch
hasStructuredPatch(msg) ==
  msg.tur.present /\ msg.tur.hasPatchKey /\ Len(msg.tur.patch) > 0

\* One hunk of a structuredPatch written as unified diff text.
RECURSIVE JoinLinesNL(_)
JoinLinesNL(ls) ==
  IF Len(ls) = 0 THEN <<>> ELSE ls[1] \o <<NL>> \o JoinLinesNL(Tail(ls))

\* fmt.Sprintf("%d", n)
FormatInt(n) == IF n < 0 THEN <<"-">> \o Itoa(0 - n) ELSE Itoa(n)

\* An element of structuredPatch that is no map is passed over.
HunkText(h) ==
  IF ~h.isMap THEN <<>>
  ELSE <<"@", "@", " ", "-">> \o FormatInt(h.oldStart) \o <<",">>
         \o FormatInt(h.oldLines) \o <<" ", "+">> \o FormatInt(h.newStart)
         \o <<",">> \o FormatInt(h.newLines)
         \o <<" ", "@", "@", NL>> \o JoinLinesNL(h.lines)

RECURSIVE HunksText(_)
HunksText(patch) ==
  IF Len(patch) = 0 THEN <<>> ELSE HunkText(patch[1]) \o HunksText(Tail(patch))

\* extractStructuredPatch
extractStructuredPatch(msg) ==
  IF ~msg.tur.present THEN <<>>
  ELSE LET filePath == IF msg.tur.filePath = <<>> THEN <<"f", "i", "l", "e">>
                       ELSE msg.tur.filePath
       IN  IF ~msg.tur.hasPatchKey \/ Len(msg.tur.patch) = 0 THEN <<>>
           ELSE <<"-", "-", "-", " ", "a", "/">> \o filePath \o <<NL>>
                  \o <<"+", "+", "+", " ", "b", "/">> \o filePath \o <<NL>>
                  \o HunksText(msg.tur.patch)

\* colorizeDiffLines: one output line per diff line, file headers dropped.
ColorizeLine(line) ==
  IF HasPrefix(line, <<"+">>) /\ ~HasPrefix(line, <<"+", "+", "+">>)
  THEN <<"[white:#2d5a2d]">> \o line \o <<"[-:-]", NL>>
  ELSE IF HasPrefix(line, <<"-">>) /\ ~HasPrefix(line, <<"-", "-", "-">>)
  THEN <<"[white:#5a2d5a]">> \o line \o <<"[-:-]", NL>>
  ELSE IF HasPrefix(line, <<"@", "@">>)
  THEN <<"[#808080]">> \o line \o <<"[-]", NL>>
  ELSE IF HasPrefix(line, <<"-", "-", "-">>) \/ HasPrefix(line, <<"+", "+", "+">>)
  THEN <<>>
  ELSE line \o <<NL>>

RECURSIVE ColorizeLines(_)
ColorizeLines(ls) ==
  IF Len(ls) = 0 THEN <<>> ELSE ColorizeLine(ls[1]) \o ColorizeLines(Tail(ls))

\* strings.TrimSuffix(out, "\n")
TrimSuffixNL(out) ==
  IF HasSuffix(out, <<NL>>) THEN SubSeq(out, 1, Len(out) - 1) ELSE out

colorizeDiffLines(diff) == TrimSuffixNL(ColorizeLines(Split(diff, NL)))

\* ShellFormatter.getFirstLine: first non-blank line, trimmed, cut at 60
\* bytes (len(line) > 60, line[:60] + "...").
Truncate60(l) ==
  IF ByteLength(l) > 60 THEN BytePrefix(l, 60) \o <<".", ".", ".">> ELSE l

FirstLineAt(ls, i) == IF i = 0 THEN <<>> ELSE Truncate60(TrimSpace(ls[i]))

FirstNonBlank(ls) ==
  FirstLineAt(ls, LeastOr({i \in 1..Len(ls) : TrimSpace(ls[i]) # <<>>}, 0))

getFirstLine(text) == FirstNonBlank(Split(text, NL))

\* ShellFormatter.StripANSI: every match of \x1b\[[0-9;]*[a-zA-Z] is removed.
ESC == ""

IsAsciiLetter(c) == \E i \in 1..26 : UpperChars[i] = c \/ LowerChars[i] = c

RECURSIVE AnsiParamsEnd(_, _)
AnsiParamsEnd(s, i) ==
  IF i <= Len(s) /\ (IsDigit(s[i]) \/ s[i] = ";") THEN AnsiParamsEnd(s, i + 1)
  ELSE i

\* The index of the letter that ends the escape sequence whose parameters
\* end before j, 0 when no letter follows.
AnsiEnd(s, j) == IF j <= Len(s) /\ IsAsciiLetter(s[j]) THEN j ELSE 0

IsAnsiStart(s, i) ==
  /\ s[i] = ESC
  /\ i < Len(s)
  /\ s[i + 1] = "["
  /\ AnsiEnd(s, AnsiParamsEnd(s, i + 2)) > 0

RECURSIVE StripANSIFrom(_, _)
StripANSIFrom(s, i) ==
  IF i > Len(s) THEN <<>>
  ELSE IF IsAnsiStart(s, i)
  THEN StripANSIFrom(s, AnsiEnd(s, AnsiParamsEnd(s, i + 2)) + 1)
  ELSE <<s[i]>> \o StripANSIFrom(s, i + 1)

StripANSI(text) == StripANSIFrom(text, 1)

\* ShellFormatter.formatHeader, one operator per tool name.
BashHeader(preview) ==
  IF preview # <<>>
  THEN <<"[#179299:-:b]", "B", "a", "s", "h", ":", "[-]", " ">> \o preview
  ELSE <<"[#179299:-:b]", "B", "a", "s", "h", ":", "[-]", " ",
         "(", "n", "o", " ", "o", "u", "t", "p", "u", "t", ")">>

ReadHeader(filePath) ==
  IF filePath # <<>>
  THEN <<"[#179299:-:b]", "R", "e", "a", "d", ":", "[-]", " ", "[#1e66f5]">>
         \o filePath \o <<"[-]">>
  ELSE <<"[#179299:-:b]", "R", "e", "a", "d", ":", "[-]">>

\* ParseToolResult leaves Command empty, so the Glob header is the tool name
\* and, for a positive FileCount, the count.
GlobHeader(fileCount) ==
  <<"[#179299:-:b]", "G", "l", "o", "b", ":", "[-]">>
    \o (IF fileCount > 0
        THEN <<" ", "[#808080]", "(">> \o Itoa(fileCount)
               \o <<" ", "f", "i", "l", "e", "s", ")", "[-]">>
        ELSE <<>>)

EditHeader == <<"[#179299:-:b]", "E", "d", "i", "t", ":", "[-]">>

\* FileCount of a filenames result: numFiles overrides the array's length.
FileCountOf(filenames) ==
  IF filenames.hasNumFiles THEN filenames.numFiles ELSE filenames.count

\* ParseToolResult returned a ShellOutput (not nil).
ToolResultParsed(tur) ==
  /\ ~tur.hasPatchKey
  /\ ~tur.hasNewTodos
  /\ (tur.hasStdout \/ tur.file.present \/ tur.filenames.present \/ tur.hasFilePath)

\* ParseToolResult followed by ShellFormatter.Format; <<>> stands for
\* "ParseToolResult returned nil".
FormatToolUseResult(tur) ==
  IF tur.hasPatchKey \/ tur.hasNewTodos THEN <<>>
  ELSE IF tur.hasStdout
  THEN BashHeader(getFirstLine(StripANSI(tur.stdout)))
  ELSE IF tur.file.present
  THEN ReadHeader(tur.file.filePath)
  ELSE IF tur.filenames.present
  THEN GlobHeader(FileCountOf(tur.filenames))
  ELSE IF tur.hasFilePath
  THEN EditHeader
  ELSE <<>>

\* ExtractToolResultContent
ExtractToolResultContent(msg) ==
  IF msg.tur.present /\ ToolResultParsed(msg.tur)
  THEN FormatToolUseResult(msg.tur)
  ELSE IF msg.content.kind # "array" THEN <<>>
  ELSE LET its == msg.content.items
           hit == {i \in 1..Len(its) :
                     its[i].type = "tool_result" /\ its[i].content # <<>>}
       IN  IF hit = {} THEN <<>>
           ELSE <<"[#179299:-:b]", "T", "o", "o", "l", ":", "[-]">>

\* ExtractUserContent
UserItemText(it) ==
  IF it.type = "text" /\ it.text # <<>> THEN <<it.text>>
  ELSE IF it.type = "tool_result" /\ it.content # <<>> THEN <<it.content>>
  ELSE <<>>

RECURSIVE UserTextParts(_)
UserTextParts(its) ==
  IF Len(its) = 0 THEN <<>> ELSE UserItemText(its[1]) \o UserTextParts(Tail(its))

ExtractUserContent(msg) ==
  IF msg.content.kind = "string" THEN msg.content.text
  ELSE IF msg.content.kind = "array" THEN Join(UserTextParts(msg.content.items), <<NL>>)
  ELSE <<>>

\* ExtractAssistantContent: a text item whose text is a string, the empty
\* string too.
AssistantItemText(it) ==
  IF /\ it.type = "text" /\ it.hasText
     /\ ~StrContains(it.text, <<"<", "f", "u", "n", "c", "t", "i", "o", "n", "_", "c", "a", "l", "l", "s", ">">>)
     /\ ~StrContains(it.text, <<"<", "i", "n", "v", "o", "k", "e">>)
  THEN <<it.text>> ELSE <<>>

RECURSIVE AssistantTextParts(_)
AssistantTextParts(its) ==
  IF Len(its) = 0 THEN <<>>
  ELSE AssistantItemText(its[1]) \o AssistantTextParts(Tail(its))

ExtractAssistantContent(msg) ==
  IF msg.content.kind = "array"
  THEN Join(AssistantTextParts(msg.content.items), <<NL>>)
  ELSE <<>>

\* strings.Repeat of a one-character string
Repeat(c, n) == [i \in 1..n |-> c]

\* strings.Count of a one-character string
Count(s, c) == Cardinality({i \in 1..Len(s) : s[i] = c})

\* The first position from i on that holds c, 0 when there is none.
NextCharAt(s, i, c) == LeastOr({j \in i..Len(s) : s[j] = c}, 0)

\* The last position of the run of characters other than c that starts at i.
RunEnd(s, i, c) == IF NextCharAt(s, i, c) = 0 THEN Len(s) ELSE NextCharAt(s, i, c) - 1

\* strings.TrimLeft(s, cutset) and strings.Trim(s, cutset)
RECURSIVE TrimLeftSet(_, _)
TrimLeftSet(s, cutset) ==
  IF Len(s) > 0 /\ s[1] \in cutset THEN TrimLeftSet(Tail(s), cutset) ELSE s

RECURSIVE TrimRightSet(_, _)
TrimRightSet(s, cutset) ==
  IF Len(s) > 0 /\ s[Len(s)] \in cutset
  THEN TrimRightSet(SubSeq(s, 1, Len(s) - 1), cutset) ELSE s

TrimSet(s, cutset) == TrimRightSet(TrimLeftSet(s, cutset), cutset)

\* processInlineCode: every run of one or more characters other than the back
\* quote (U+0060, written "u0060") between two back quotes becomes
\* [#a0a0a0]$1[-].  j is the first back quote after the one at i.
RECURSIVE InlineCodeFrom(_, _)
InlineCodeAt(s, i, j) ==
  IF j > i + 1
  THEN <<"[", "#", "a", "0", "a", "0", "a", "0", "]">> \o SubSeq(s, i + 1, j - 1) \o <<"[", "-", "]">>
         \o InlineCodeFrom(s, j + 1)
  ELSE <<s[i]>> \o InlineCodeFrom(s, i + 1)

InlineCodeRun(s, i, e) == SubSeq(s, i, e) \o InlineCodeFrom(s, e + 1)

InlineCodeFrom(s, i) ==
  IF i > Len(s) THEN <<>>
  ELSE IF s[i] = "u0060" THEN InlineCodeAt(s, i, NextCharAt(s, i + 1, "u0060"))
  ELSE InlineCodeRun(s, i, RunEnd(s, i, "u0060"))

processInlineCode(text) == InlineCodeFrom(text, 1)

\* processLinks: every match of \[([^\]]+)\]\(([^)]+)\) becomes
\* [blue]$1[white].  j is the "]" that ends the link text opened at i (0 when
\* the text is empty or not closed), k the ")" that ends the URL (0 when no
\* "(" follows j, or the URL is empty or not closed).
LinkTextEnd(i, j) == IF j > i + 1 THEN j ELSE 0

LinkURLEnd(j, k) == IF k > j + 2 THEN k ELSE 0

LinkEnd(s, j) ==
  IF j > 0 /\ j < Len(s) /\ s[j + 1] = "("
  THEN LinkURLEnd(j, NextCharAt(s, j + 2, ")"))
  ELSE 0

RECURSIVE LinksFrom(_, _)
LinksAt(s, i, j, k) ==
  IF k > 0
  THEN <<"[", "b", "l", "u", "e", "]">> \o SubSeq(s, i + 1, j - 1) \o <<"[", "w", "h", "i", "t", "e", "]">> \o LinksFrom(s, k + 1)
  ELSE <<s[i]>> \o LinksFrom(s, i + 1)

LinksRun(s, i, e) == SubSeq(s, i, e) \o LinksFrom(s, e + 1)

LinksFrom(s, i) ==
  IF i > Len(s) THEN <<>>
  ELSE IF s[i] = "["
  THEN LinksAt(s, i, LinkTextEnd(i, NextCharAt(s, i + 1, "]")),
               LinkEnd(s, LinkTextEnd(i, NextCharAt(s, i + 1, "]"))))
  ELSE LinksRun(s, i, RunEnd(s, i, "["))

processLinks(text) == LinksFrom(SpellTags(text), 1)

\* removeMarkdownBold: every match of \*\*([^*]+)\*\*, then of __([^_]+)__,
\* becomes [#ffd700:-:b]$1[-:-:-].  j is the first marker after the pair at
\* i, i + 1; it closes the match when the text is not empty and a second
\* marker follows it.
BoldClose(s, i, j, m) ==
  IF j > i + 2 /\ j < Len(s) /\ s[j + 1] = m THEN j ELSE 0

RECURSIVE BoldFrom(_, _, _)
BoldAt(s, i, j, m) ==
  IF j > 0
  THEN <<"[", "#", "f", "f", "d", "7", "0", "0", ":", "-", ":", "b", "]">> \o SubSeq(s, i + 2, j - 1) \o <<"[", "-", ":", "-", ":", "-", "]">>
         \o BoldFrom(s, j + 2, m)
  ELSE <<s[i]>> \o BoldFrom(s, i + 1, m)

BoldRun(s, i, e, m) == SubSeq(s, i, e) \o BoldFrom(s, e + 1, m)

BoldFrom(s, i, m) ==
  IF i > Len(s) THEN <<>>
  ELSE IF s[i] = m /\ i < Len(s) /\ s[i + 1] = m
  THEN BoldAt(s, i, BoldClose(s, i, NextCharAt(s, i + 2, m), m), m)
  ELSE IF s[i] = m THEN <<s[i]>> \o BoldFrom(s, i + 1, m)
  ELSE BoldRun(s, i, RunEnd(s, i, m), m)

removeMarkdownBold(text) == BoldFrom(BoldFrom(text, 1, "*"), 1, "_")

\* removeItalicMarkers: a doubled marker is copied; a single marker with a
\* later single marker becomes [::i]text[::-]; the search for the closing
\* marker ends at the first marker met, which closes unless it is doubled.
ItalicClose(s, j, m) ==
  IF j > 0 /\ ~(j < Len(s) /\ s[j + 1] = m) THEN j ELSE 0

RECURSIVE ItalicFrom(_, _, _)
ItalicAt(s, i, j, m) ==
  IF j > 0
  THEN <<"[", ":", ":", "i", "]">> \o SubSeq(s, i + 1, j - 1) \o <<"[", ":", ":", "-", "]">> \o ItalicFrom(s, j + 1, m)
  ELSE <<s[i]>> \o ItalicFrom(s, i + 1, m)

ItalicRun(s, i, e, m) == SubSeq(s, i, e) \o ItalicFrom(s, e + 1, m)

ItalicFrom(s, i, m) ==
  IF i > Len(s) THEN <<>>
  ELSE IF s[i] = m /\ i < Len(s) /\ s[i + 1] = m
  THEN <<m, m>> \o ItalicFrom(s, i + 2, m)
  ELSE IF s[i] = m
  THEN ItalicAt(s, i, ItalicClose(s, NextCharAt(s, i + 1, m), m), m)
  ELSE ItalicRun(s, i, RunEnd(s, i, m), m)

\* []rune(text): a byte that belongs to no character is the rune U+FFFD.
Runes(text) == [i \in 1..Len(text) |-> IF IsRawByte(text[i]) THEN "uFFFD" ELSE text[i]]

removeItalicMarkers(text, marker) == ItalicFrom(Runes(text), 1, marker)

removeMarkdownItalic(text) ==
  removeItalicMarkers(removeItalicMarkers(text, "*"), "_")

\* processListItems.  dot is the position of the "." that ends a list number
\* within the first four bytes of the trimmed line, 0 when there is none.
RECURSIVE NumberDot(_, _)
NumberDot(trimmed, i) ==
  IF i > Len(trimmed) \/ i > 4 THEN 0
  ELSE IF IsDigit(trimmed[i]) THEN NumberDot(trimmed, i + 1)
  ELSE IF trimmed[i] = "." /\ i > 1 /\ i + 1 <= Len(trimmed) /\ trimmed[i + 1] = " "
  THEN i
  ELSE 0

ListItem(line, trimmed, leadingSpaces, dot) ==
  IF /\ leadingSpaces >= 2
     /\ (HasPrefix(trimmed, <<"-", " ">>) \/ HasPrefix(trimmed, <<"*", " ">>))
  THEN <<" ", " ", " ", " ", "[", "#", "8", "0", "8", "0", "8", "0", "]", "-", "[", "-", "]", " ">>
         \o TrimPrefix(TrimPrefix(trimmed, <<"-", " ">>), <<"*", " ">>)
  ELSE IF HasPrefix(trimmed, <<"-", " ">>)
  THEN <<" ", " ", "[", "c", "y", "a", "n", "]", "-", "[", "-", "]", " ">> \o TrimPrefix(trimmed, <<"-", " ">>)
  ELSE IF HasPrefix(trimmed, <<"*", " ">>)
  THEN <<" ", " ", "[", "c", "y", "a", "n", "]", "*", "[", "-", "]", " ">> \o TrimPrefix(trimmed, <<"*", " ">>)
  ELSE IF dot > 0 /\ ByteLength(trimmed) >= 3
  THEN <<" ", " ", "[", "y", "e", "l", "l", "o", "w", "]">> \o SubSeq(trimmed, 1, dot) \o <<"[", "-", "]", " ">>
         \o SubSeq(trimmed, dot + 2, Len(trimmed))
  ELSE line

processListItems(line) ==
  ListItem(line, TrimSpace(line), Len(line) - Len(TrimLeftSet(line, {" ", "\t"})),
           NumberDot(TrimSpace(line), 1))

\* processMarkdownLine: a heading ("# ", "## ", "### " after trimming) is
\* styled as a whole; any other line goes through inline code, links, bold,
\* italic and list items, in this order.
HeadingLine(color, text) ==
  color \o removeMarkdownBold(processInlineCode(text)) \o <<"[", "-", ":", "-", ":", "-", "]">>

StyledLine(line, trimmed) ==
  IF HasPrefix(trimmed, <<"#", " ">>)
  THEN HeadingLine(<<"[", "y", "e", "l", "l", "o", "w", ":", "-", ":", "b", "]">>, TrimPrefix(trimmed, <<"#", " ">>))
  ELSE IF HasPrefix(trimmed, <<"#", "#", " ">>)
  THEN HeadingLine(<<"[", "#", "8", "7", "c", "e", "e", "b", ":", "-", ":", "b", "]">>, TrimPrefix(trimmed, <<"#", "#", " ">>))
  ELSE IF HasPrefix(trimmed, <<"#", "#", "#", " ">>)
  THEN HeadingLine(<<"[", "#", "8", "0", "8", "0", "8", "0", ":", "-", ":", "b", "]">>, TrimPrefix(trimmed, <<"#", "#", "#", " ">>))
  ELSE processListItems(removeMarkdownItalic(removeMarkdownBold(
         processLinks(processInlineCode(line)))))

processMarkdownLine(line) == StyledLine(SpellTags(line), TrimSpace(SpellTags(line)))

\* renderCodeBlock: nothing for an empty block; lines with box-drawing
\* characters are indented, any other block is boxed.
BoxChars ==
  {"u2500", "u2502", "u250C", "u2510", "u2514", "u2518", "u251C", "u2524",
   "u252C", "u2534", "u253C", "u2550", "u2551", "u2554", "u2557", "u255A",
   "u255D", "u2560", "u2563", "u2566", "u2569", "u256C", "u256D", "u256E",
   "u2570", "u256F"}

containsBoxDrawing(lines) ==
  \E i \in 1..Len(lines) : \E j \in 1..Len(lines[i]) : lines[i][j] \in BoxChars

renderCodeBlockSimple(lines, language) ==
  (IF language # <<>> THEN << <<"[", "#", "7", "0", "7", "0", "7", "0", "]">> \o language \o <<"[", "-", "]">> >> ELSE <<>>)
    \o [i \in 1..Len(lines) |-> <<"[", "#", "7", "0", "7", "0", "7", "0", "]", " ", " ", " ", " ">> \o lines[i] \o <<"[", "-", "]">>]

CodeWidth(lines, maxWidth) ==
  Min(GreatestOr({ByteLength(lines[i]) : i \in 1..Len(lines)}, 0), maxWidth - 4)

TopBorder(language, label, codeWidth) ==
  IF language # <<>> /\ ByteLength(label) <= codeWidth
  THEN <<"u250C">> \o label \o Repeat("u2500", codeWidth + 2 - ByteLength(label)) \o <<"u2510">>
  ELSE <<"u250C">> \o Repeat("u2500", codeWidth + 2) \o <<"u2510">>

CodeLine(line, codeWidth) ==
  <<"[", "#", "7", "0", "7", "0", "7", "0", "]", "u2502", " ">>
    \o (IF ByteLength(line) > codeWidth THEN BytePrefix(line, codeWidth)
        ELSE line \o Repeat(" ", codeWidth - ByteLength(line)))
    \o <<" ", "u2502", "[", "-", "]">>

BoxedLines(lines, language, codeWidth) ==
  << <<"[", "#", "7", "0", "7", "0", "7", "0", "]">> \o TopBorder(language, <<" ">> \o language \o <<" ">>, codeWidth) \o <<"[", "-", "]">> >>
    \o [i \in 1..Len(lines) |-> CodeLine(lines[i], codeWidth)]
    \o << <<"[", "#", "7", "0", "7", "0", "7", "0", "]", "u2514">> \o Repeat("u2500", codeWidth + 2) \o <<"u2518", "[", "-", "]">> >>

\* renderCodeBlockBoxed.  With maxWidth below 4 the width is negative:
\* strings.Repeat panics on codeWidth + 2 < 0, and displayLine[:codeWidth]
\* on the first line.  The panic is returned in the place of the lines.
BoxedOrPanic(lines, language, codeWidth) ==
  IF codeWidth + 2 < 0 \/ (codeWidth < 0 /\ Len(lines) > 0) THEN <<Panic>>
  ELSE BoxedLines(lines, language, codeWidth)

renderCodeBlockBoxed(lines, language, maxWidth) ==
  BoxedOrPanic(lines, language, CodeWidth(lines, maxWidth))

renderCodeBlock(lines, language, maxWidth) ==
  IF Len(lines) = 0 THEN <<>>
  ELSE IF containsBoxDrawing(lines) THEN renderCodeBlockSimple(lines, language)
  ELSE renderCodeBlockBoxed(lines, language, maxWidth)

\* isTableLine, isTableSeparator, parseTableCells
isTableLine(line) == TrimSpace(line) # <<>> /\ Count(TrimSpace(line), "|") >= 2

isTableSeparator(line) ==
  /\ \A i \in 1..Len(line) : line[i] \in {"-", ":", "|", " "}
  /\ \E i \in 1..Len(line) : line[i] = "-"

TrimAll(parts) == [i \in 1..Len(parts) |-> TrimSpace(parts[i])]

parseTableCells(line) == TrimAll(Split(TrimSet(TrimSpace(line), {"|"}), "|"))

\* renderTable: <<>> stands for nil (fewer than two lines, no row, or a table
\* wider than maxWidth).
IsRow(line) == ~isTableSeparator(line)

AllRows(lines) ==
  [i \in 1..Len(SelectSeq(lines, IsRow))
     |-> parseTableCells(SelectSeq(lines, IsRow)[i])]

ColWidth(rows, c) ==
  GreatestOr({ByteLength(rows[r][c]) : r \in {q \in 1..Len(rows) : c <= Len(rows[q])}}, 0)

ColWidths(rows) == [c \in 1..Len(rows[1]) |-> ColWidth(rows, c)]

RECURSIVE TotalWidth(_)
TotalWidth(colWidths) ==
  IF Len(colWidths) = 0 THEN 1 ELSE colWidths[1] + 3 + TotalWidth(Tail(colWidths))

buildHLine(left, mid, right, colWidths) ==
  <<left>>
    \o Join([c \in 1..Len(colWidths) |-> Repeat("u2500", colWidths[c] + 2)], <<mid>>)
    \o <<right>>

CellOf(cells, c) == IF c <= Len(cells) THEN cells[c] ELSE <<>>

RowCell(cell, width, cellColor) ==
  IF cellColor # <<>>
  THEN <<" ">> \o cellColor \o cell \o <<"[", "-", ":", "-", ":", "-", "]">>
         \o Repeat(" ", width - ByteLength(cell)) \o <<" ", "[", "#", "7", "0", "7", "0", "7", "0", "]", "u2502", "[", "-", "]">>
  ELSE <<" ">> \o cell \o Repeat(" ", width - ByteLength(cell)) \o <<" ", "[", "#", "7", "0", "7", "0", "7", "0", "]", "u2502", "[", "-", "]">>

RECURSIVE RowCells(_, _, _, _)
RowCells(cells, colWidths, c, cellColor) ==
  IF c > Len(colWidths) THEN <<>>
  ELSE RowCell(CellOf(cells, c), colWidths[c], cellColor)
         \o RowCells(cells, colWidths, c + 1, cellColor)

buildRow(cells, colWidths, cellColor) ==
  <<"[", "#", "7", "0", "7", "0", "7", "0", "]", "u2502", "[", "-", "]">> \o RowCells(cells, colWidths, 1, cellColor)

TableLines(rows, colWidths, hasSeparator) ==
  << <<"[", "#", "7", "0", "7", "0", "7", "0", "]">> \o buildHLine("u250C", "u252C", "u2510", colWidths) \o <<"[", "-", "]">>,
     buildRow(rows[1], colWidths, <<"[", "#", "8", "7", "c", "e", "e", "b", ":", "-", ":", "b", "]">>) >>
    \o (IF hasSeparator \/ Len(rows) > 1
        THEN << <<"[", "#", "7", "0", "7", "0", "7", "0", "]">> \o buildHLine("u251C", "u253C", "u2524", colWidths) \o <<"[", "-", "]">> >>
        ELSE <<>>)
    \o [i \in 1..(Len(rows) - 1) |-> buildRow(rows[i + 1], colWidths, <<>>)]
    \o << <<"[", "#", "7", "0", "7", "0", "7", "0", "]">> \o buildHLine("u2514", "u2534", "u2518", colWidths) \o <<"[", "-", "]">> >>

TableOfRows(rows, hasSeparator, maxWidth) ==
  IF Len(rows) < 1 THEN <<>>
  ELSE IF TotalWidth(ColWidths(rows)) > maxWidth THEN <<>>
  ELSE TableLines(rows, ColWidths(rows), hasSeparator)

renderTable(lines, maxWidth) ==
  IF Len(lines) < 2 THEN <<>>
  ELSE TableOfRows(AllRows(lines),
                   \E i \in 1..Len(lines) : isTableSeparator(lines[i]), maxWidth)

\* tableToList: one labelled item per data row, its other cells as indented
\* "header: cell" lines, and an empty line after each item.
ItemLabel(headers) == IF headers[1] = <<>> THEN <<"I", "t", "e", "m">> ELSE headers[1]

ItemName(cells) == IF cells[1] = <<>> THEN <<"(", "e", "m", "p", "t", "y", ")">> ELSE cells[1]

RECURSIVE KeyValues(_, _, _)
KeyValues(cells, headers, j) ==
  IF j > Len(cells) \/ j > Len(headers) THEN <<>>
  ELSE (IF cells[j] # <<>>
        THEN << <<" ", " ", " ", " ">> \o headers[j] \o <<":", " ">> \o cells[j] >>
        ELSE <<>>)
         \o KeyValues(cells, headers, j + 1)

ListRow(cells, headers) ==
  << <<"[", "c", "y", "a", "n", "]">> \o ItemLabel(headers) \o <<":", "[", "-", "]", " ">> \o ItemName(cells) >>
    \o KeyValues(cells, headers, 2) \o << <<>> >>

RECURSIVE ListRows(_, _, _)
ListRows(lines, i, headers) ==
  IF i > Len(lines) THEN <<>>
  ELSE (IF isTableSeparator(lines[i]) THEN <<>>
        ELSE ListRow(parseTableCells(lines[i]), headers))
         \o ListRows(lines, i + 1, headers)

tableToList(lines) ==
  IF Len(lines) < 2 THEN lines ELSE ListRows(lines, 2, parseTableCells(lines[1]))

TableOrList(tableLines, maxWidth) ==
  IF renderTable(tableLines, maxWidth) = <<>> THEN tableToList(tableLines)
  ELSE renderTable(tableLines, maxWidth)

\* The loop of formatMarkdown over the lines: result so far, the open code block
\* (inCodeBlock, its lines and language) and the open table (tableLines, <<>>
\* for "not in a table").  A line that ends a table is processed again with
\* the table flushed.
RECURSIVE FormatLoop(_, _, _, _, _, _, _, _)
FormatLoop(lines, i, maxWidth, result, inCodeBlock, codeBlockLines,
           codeBlockLanguage, tableLines) ==
  IF i > Len(lines)
  THEN result
         \o (IF inCodeBlock /\ Len(codeBlockLines) > 0
             THEN renderCodeBlock(codeBlockLines, codeBlockLanguage, maxWidth)
             ELSE <<>>)
         \o (IF tableLines # <<>> THEN TableOrList(tableLines, maxWidth) ELSE <<>>)
  ELSE IF ~inCodeBlock /\ isTableLine(TrimSpace(lines[i]))
  THEN FormatLoop(lines, i + 1, maxWidth, result, inCodeBlock, codeBlockLines,
                  codeBlockLanguage, Append(tableLines, lines[i]))
  ELSE IF tableLines # <<>>
  THEN FormatLoop(lines, i, maxWidth, result \o TableOrList(tableLines, maxWidth),
                  inCodeBlock, codeBlockLines, codeBlockLanguage, <<>>)
  ELSE IF HasPrefix(TrimSpace(lines[i]), <<"u0060", "u0060", "u0060">>) /\ ~inCodeBlock
  THEN FormatLoop(lines, i + 1, maxWidth, result, TRUE, <<>>,
                  TrimSpace(TrimPrefix(TrimSpace(lines[i]), <<"u0060", "u0060", "u0060">>)), <<>>)
  ELSE IF HasPrefix(TrimSpace(lines[i]), <<"u0060", "u0060", "u0060">>)
  THEN FormatLoop(lines, i + 1, maxWidth,
                  result \o renderCodeBlock(codeBlockLines, codeBlockLanguage, maxWidth)
                    \o << <<>> >>,
                  FALSE, <<>>, codeBlockLanguage, <<>>)
  ELSE IF inCodeBlock
  THEN FormatLoop(lines, i + 1, maxWidth, result, inCodeBlock,
                  Append(codeBlockLines, lines[i]), codeBlockLanguage, <<>>)
  ELSE FormatLoop(lines, i + 1, maxWidth, result \o <<processMarkdownLine(lines[i])>>,
                  inCodeBlock, codeBlockLines, codeBlockLanguage, <<>>)

\* strings.Join(result, "\n"), unless a code block panicked
JoinOrPanic(result) ==
  IF \E i \in 1..Len(result) : result[i] = Panic THEN Panic
  ELSE Join(result, <<NL>>)

formatMarkdown(text, maxWidth) ==
  JoinOrPanic(FormatLoop(Split(SpellTags(text), NL), 1, IF maxWidth <= 0 THEN 76 ELSE maxWidth,
                         <<>>, FALSE, <<>>, <<>>, <<>>))

\* formatAssistantContent: formatMarkdown, whose result is already the one
\* string (the call annotatedLinesToString around it has no definition in
\* the sources), then every match of
\* \[([^\]]+\(\))\] becomes [yellow]$1[-].  j is the first "]" after the "["
\* at i; the match needs "()" right before it and a character before that.
BracketClose(s, i, j) ==
  IF j > i + 3 /\ s[j - 2] = "(" /\ s[j - 1] = ")" THEN j ELSE 0

RECURSIVE BracketsFrom(_, _)
BracketsAt(s, i, j) ==
  IF j > 0
  THEN <<"[", "y", "e", "l", "l", "o", "w", "]">> \o SubSeq(s, i + 1, j - 1) \o <<"[", "-", "]">> \o BracketsFrom(s, j + 1)
  ELSE <<s[i]>> \o BracketsFrom(s, i + 1)

BracketsRun(s, i, e) == SubSeq(s, i, e) \o BracketsFrom(s, e + 1)

BracketsFrom(s, i) ==
  IF i > Len(s) THEN <<>>
  ELSE IF s[i] = "["
  THEN BracketsAt(s, i, BracketClose(s, i, NextCharAt(s, i + 1, "]")))
  ELSE BracketsRun(s, i, RunEnd(s, i, "["))

formatAssistantContent(text, termWidth) ==
  BracketsFrom(formatMarkdown(text, termWidth), 1)

\* filename := part.Meta, cut after its last "/" (at 0-based idx) if any
FileNameFrom(meta, idx) ==
  IF idx >= 0 THEN SubSeq(meta, idx + 2, Len(meta)) ELSE meta

\* The text CreateTurnBlock renders for one part.
RenderPart(part) ==
  IF part.Type = "user"
  THEN <<"[white:#303030]">> \o part.Content \o <<"[-:-:-]">>
  ELSE IF part.Type = "diff"
  THEN <<"[#808080]", "-", "-", "-", " ">>
         \o FileNameFrom(part.Meta, LastIndex(part.Meta, <<"/">>))
         \o <<" ", "-", "-", "-", "[-]", NL>> \o colorizeDiffLines(part.Content)
  ELSE IF part.Type = "assistant" THEN formatAssistantContent(part.Content, 0)
  ELSE IF part.Type = "tool_result" THEN part.Content
  ELSE IF part.Type = "question"
  THEN <<"[yellow]", "[", "?", "]", "[-]", " ">> \o part.Content
  ELSE <<>>

\* The switch has no default: a part of any other Type appends nothing.
HasCase(part) == part.Type \in {"user", "diff", "assistant", "tool_result", "question"}

\* contentParts after the loop over the parts
ContentParts(parts) ==
  [i \in 1..Len(SelectSeq(parts, HasCase)) |-> RenderPart(SelectSeq(parts, HasCase)[i])]

BlockName(turnNo) == <<"b", "l", "o", "c", "k", "-">> \o Itoa(turnNo)

\* The Block CreateTurnBlock returns for the joined text of the parts.
TurnBlock(turnNo, fullContent, line) ==
  MkBlock(BlockName(turnNo), fullContent, line, <<fullContent>>, 1,
          BlockContentPlain, <<BlockContentPlain>>, << <<>> >>, SourceChat)

\* CreateTurnBlock
CreateTurnBlock(turn, turnNo) ==
  TurnBlock(turnNo,
            Join(ContentParts(turn.Parts), <<NL, NL>>),
            turn.LineNum)

\* createDiffBlock: <<>> for nil, else the one block.
LastOf(parts) == parts[Len(parts)]

DiffBlockName(msg, diffNumber) ==
  IF msg.tur.filePath = <<>>
  THEN <<"d", "i", "f", "f", "-">> \o Itoa(diffNumber)
  ELSE LastOf(Split(msg.tur.filePath, "/"))

DiffBlock(filePath, diffContent, line, numHunks) ==
  IF diffContent = <<>> THEN <<>>
  ELSE << MkBlock(<<"d", "i", "f", "f", ":", " ">> \o filePath, diffContent, line,
                  [i \in 1..numHunks |-> diffContent], numHunks, BlockContentDiff,
                  [i \in 1..numHunks |-> BlockContentDiff], <<>>, <<>>) >>

DiffBlockOf(msg, diffNumber, line, diffContent) ==
  DiffBlock(DiffBlockName(msg, diffNumber), diffContent, line,
            Max(Len(ParseHunks(diffContent)), 1))

createDiffBlock(msg, diffNumber, line) ==
  DiffBlockOf(msg, diffNumber, line, extractStructuredPatch(msg))

\* The block ParseSingleLine makes of the lines of a user / assistant text.
PagedBlock(name, text, line, pages, src) ==
  MkBlock(name, text, line, pages, Len(pages), BlockContentPlain, <<>>, <<>>, src)

LineBlock(turnNo, contentLines) ==
  << PagedBlock(BlockName(turnNo), Join(contentLines, <<NL>>), 0,
                splitIntoPages(contentLines, LinesPerPage), <<>>) >>

\* Lines 544-559: the block of a user text, "[cyan]U:[-] " before it.
UserLineBlock(turnNo, userContent) ==
  IF userContent = <<>> THEN <<>>
  ELSE LineBlock(turnNo, << <<"[cyan]", "U", ":", "[-]", " ">> \o userContent >>)

PrefixFirst(prefix, ls) == << prefix \o ls[1] >> \o Tail(ls)

\* Lines 561-580: the block of an assistant text, "A: " before its first line.
AssistantLineBlock(turnNo, assistantContent) ==
  IF assistantContent = <<>> THEN <<>>
  ELSE LineBlock(turnNo, PrefixFirst(<<"A", ":", " ">>, Split(assistantContent, NL)))

\* JSONLParser.ParseSingleLine under filters f (already defaulted): <<>>
\* for nil, else the one block.
ParseSingleLine(msg, turnNo, f) ==
  IF msg.raw # "json" \/ msg.type = "" THEN <<>>
  ELSE IF msg.type = "user" THEN
    IF isToolResultMessage(msg)
    THEN IF f.diff /\ hasStructuredPatch(msg) THEN createDiffBlock(msg, turnNo, 0)
         ELSE <<>>
    ELSE IF ~f.user THEN <<>>
    ELSE UserLineBlock(turnNo, ExtractUserContent(msg))
  ELSE IF msg.type = "assistant" THEN
    IF ~f.assistant THEN <<>>
    ELSE AssistantLineBlock(turnNo, ExtractAssistantContent(msg))
  ELSE <<>>

DefaultFilters ==
  [set |-> TRUE, user |-> TRUE, assistant |-> TRUE, diff |-> TRUE, tool_result |-> FALSE]

\* "Default filters if not set"
EffectiveFilters(f) == IF f.set THEN f ELSE DefaultFilters

\* The parts a tool-result line adds to an open turn (parser_jsonl.go
\* 244-267, follower.go 98-121).
PartIfText(ty, c, meta) == IF c # <<>> THEN <<TurnPart(ty, c, meta)>> ELSE <<>>

DiffPartOf(f, msg) ==
  IF f.diff /\ hasStructuredPatch(msg)
  THEN PartIfText("diff", extractStructuredPatch(msg), msg.tur.filePath)
  ELSE <<>>

ToolPartOf(f, msg) ==
  IF f.tool_result
  THEN PartIfText("tool_result", ExtractToolResultContent(msg), <<>>)
  ELSE <<>>

OpenTurn(parts, line) == [open |-> TRUE, Parts |-> parts, LineNum |-> line]

\* The state of the loop of JSONLParser.Parse.
ParseState(bs, ts, turn, turnNo) ==
  [blocks |-> bs, turns |-> ts, currentTurn |-> turn, turnNumber |-> turnNo]

ClosedTurn == [open |-> FALSE, Parts |-> <<>>, LineNum |-> 0]

\* A tool-result line that closes the turn as a user line would.
ToolResultLineEmits(st, f, msg) ==
  IF st.currentTurn.open
  THEN ParseState(Append(st.blocks, CreateTurnBlock(st.currentTurn, st.turnNumber)),
                  Append(st.turns, st.currentTurn.Parts),
                  ClosedTurn, st.turnNumber + 1)
  ELSE st

\* Lines 242-271: a tool result adds its parts to the open turn.
ToolResultLine(st, f, msg) ==
  IF st.currentTurn.open
  THEN [st EXCEPT !.currentTurn.Parts = @ \o DiffPartOf(f, msg) \o ToolPartOf(f, msg)]
  ELSE st

\* Lines 273-292: a genuine user line.  The open turn is emitted and the
\* turn number advanced before the extracted text is looked at.
TurnAfterUser(turn, userContent, ln) ==
  IF userContent # <<>>
  THEN OpenTurn(<<TurnPart("user", userContent, <<>>)>>, ln)
  ELSE turn

\* A genuine user line taken without looking at the user filter.
UserLineUnfiltered(st, f, msg, ln) ==
  ParseState(
    IF st.currentTurn.open
    THEN Append(st.blocks, CreateTurnBlock(st.currentTurn, st.turnNumber))
    ELSE st.blocks,
    IF st.currentTurn.open THEN Append(st.turns, st.currentTurn.Parts)
    ELSE st.turns,
    TurnAfterUser(st.currentTurn, ExtractUserContent(msg), ln),
    st.turnNumber + 1)

UserLine(st, f, msg, ln) ==
  IF ~f.user THEN st
  ELSE
    ParseState(
      IF st.currentTurn.open
      THEN Append(st.blocks, CreateTurnBlock(st.currentTurn, st.turnNumber))
      ELSE st.blocks,
      IF st.currentTurn.open THEN Append(st.turns, st.currentTurn.Parts)
      ELSE st.turns,
      TurnAfterUser(st.currentTurn, ExtractUserContent(msg), ln),
      st.turnNumber + 1)

\* An assistant line taken without looking at the assistant filter.
AssistantLineUnfiltered(st, f, msg) ==
  IF st.currentTurn.open
  THEN [st EXCEPT !.currentTurn.Parts =
          @ \o PartIfText("assistant", ExtractAssistantContent(msg), <<>>)]
  ELSE st

\* Lines 293-302: an assistant line.
AssistantLine(st, f, msg) ==
  IF f.assistant /\ st.currentTurn.open
  THEN [st EXCEPT !.currentTurn.Parts =
          @ \o PartIfText("assistant", ExtractAssistantContent(msg), <<>>)]
  ELSE st

\* One iteration of the loop of JSONLParser.Parse (lines 218-303) on the
\* line with 0-based number ln.
ParseLine(st, f, msg, ln) ==
  IF msg.raw # "json" \/ msg.type = "" THEN st
  ELSE IF msg.type = "user" THEN
    IF isToolResultMessage(msg) THEN ToolResultLine(st, f, msg)
    ELSE UserLine(st, f, msg, ln)
  ELSE IF msg.type = "assistant" THEN AssistantLine(st, f, msg)
  ELSE st

\* "Don't forget the last turn" (lines 305-309)
ParseFlush(st) ==
  IF st.currentTurn.open
  THEN [st EXCEPT !.blocks = Append(@, CreateTurnBlock(st.currentTurn, st.turnNumber)),
                  !.turns = Append(@, st.currentTurn.Parts)]
  ELSE st

RECURSIVE ParseLoop(_, _, _, _)
ParseLoop(st, f, lines, i) ==
  IF i > Len(lines) THEN st
  ELSE ParseLoop(ParseLine(st, f, lines[i], i - 1), f, lines, i + 1)

\* JSONLParser.Parse: the final state of its loop, flushed.
JSONLParse(lines, f) ==
  ParseFlush(ParseLoop(
    ParseState(<<>>, <<>>, ClosedTurn, 0),
    EffectiveFilters(f), lines, 1))

-----------------------------------------------------------------------------
(* BlockIndex (NewBlockIndex, FindBlock, NextBlock, PrevBlock,             *)
(* GetBlockByPosition).  Positions are 0-based as in the code; a *Block    *)
(* result is the position of the block it points at, -1 for nil.           *)

MapPut(m, k, v) == [x \in (DOMAIN m) \cup {k} |-> IF x = k THEN v ELSE m[x]]

\* The loop of NewBlockIndex: index.nameIndex[lowerName] = i
RECURSIVE NameIndexLoop(_, _, _)
NameIndexLoop(bs, i, m) ==
  IF i > Len(bs) THEN m
  ELSE NameIndexLoop(bs, i + 1, MapPut(m, ToLower(bs[i].Name), i - 1))

\* An index whose entries are never overwritten.
RECURSIVE NameIndexFirstWins(_, _, _)
NameIndexFirstWins(bs, i, m) ==
  IF i > Len(bs) THEN m
  ELSE NameIndexFirstWins(bs, i + 1,
         IF ToLower(bs[i].Name) \in DOMAIN m THEN m
         ELSE MapPut(m, ToLower(bs[i].Name), i - 1))

NewBlockIndexFirstWins(bs) == NameIndexFirstWins(bs, 1, <<>>)

\* NewBlockIndex: the nameIndex built for blocks
NewBlockIndex(bs) == NameIndexLoop(bs, 1, <<>>)

\* A lookup that skips the exact match.
\* "Fuzzy match": the first block whose lowercased name contains the query
FuzzyMatch(bs, qq) ==
  LeastOr({i \in 1..Len(bs) : StrContains(ToLower(bs[i].Name), qq)}, 0) - 1

\* The lookup of a query already trimmed and lowercased.
FindQuery(bs, ni, qq) == IF qq \in DOMAIN ni THEN ni[qq] ELSE FuzzyMatch(bs, qq)

\* A lookup that skips the exact match.
FindBlockFuzzyOnly(bs, ni, q) == FuzzyMatch(bs, ToLower(TrimSpace(q)))

\* BlockIndex.FindBlock
FindBlock(bs, ni, q) == FindQuery(bs, ni, ToLower(TrimSpace(q)))

\* BlockIndex.GetBlockByPosition
GetBlockByPosition(bs, pos) == IF pos >= 0 /\ pos < Len(bs) THEN pos ELSE -1

\* BlockIndex.NextBlock
NextOf(bs, ni, name) ==
  IF name \in DOMAIN ni /\ ni[name] + 1 < Len(bs) THEN ni[name] + 1 ELSE -1

NextBlock(bs, ni, currentName) == NextOf(bs, ni, ToLower(currentName))

\* BlockIndex.PrevBlock
PrevOf(bs, ni, name) ==
  IF name \in DOMAIN ni /\ ni[name] > 0 THEN ni[name] - 1 ELSE -1

PrevBlock(bs, ni, currentName) == PrevOf(bs, ni, ToLower(currentName))

-----------------------------------------------------------------------------
(* follower.go: watchFile's dispatch of one complete line.                 *)

WatchState(bs, ni, ts, turn, turnNo, idx, calls) ==
  [blocks |-> bs, nameIndex |-> ni, turns |-> ts, currentTurn |-> turn,
   turnNumber |-> turnNo, currentBlockIdx |-> idx, notified |-> calls]

\* An entry that is not written.
IndexNameNot(ni, newBlock, idx) == ni

\* Lines 45 and 142:
\* index.nameIndex[strings.ToLower(newBlock.Name)] = currentBlockIdx
IndexName(ni, newBlock, idx) == MapPut(ni, ToLower(newBlock.Name), idx)

\* The watcher's state after newBlock was appended for the current turn.
AppendBlock(st, turn, turnNo, newBlock) ==
  WatchState(Append(st.blocks, newBlock),
             IndexName(st.nameIndex, newBlock, Len(st.blocks)),
             Append(st.turns, turn.Parts),
             turn, turnNo, Len(st.blocks), st.notified + 1)

\* The watcher's state after newBlock replaced the current turn's block.
ReplaceBlock(st, newBlock) ==
  [st EXCEPT !.blocks[st.currentBlockIdx + 1] = newBlock,
             !.turns[st.currentBlockIdx + 1] = st.currentTurn.Parts,
             !.nameIndex = IndexName(@, newBlock, st.currentBlockIdx),
             !.notified = @ + 1]

\* A rebuild that appends the rebuilt block instead of replacing it.
rebuildAppends(st) ==
  IF ~st.currentTurn.open \/ st.currentBlockIdx < 0 THEN st
  ELSE AppendBlock(st, st.currentTurn, st.turnNumber,
                   CreateTurnBlock(st.currentTurn, st.turnNumber))

\* rebuildCurrentBlock (lines 39-47)
rebuildCurrentBlock(st) ==
  IF ~st.currentTurn.open \/ st.currentBlockIdx < 0 THEN st
  ELSE ReplaceBlock(st, CreateTurnBlock(st.currentTurn, st.turnNumber))

\* Lines 94-128: a tool result adds its parts to the open turn and the
\* turn's block is rebuilt when a part was added.
RebuildWith(st, parts) ==
  IF parts # <<>>
  THEN rebuildCurrentBlock([st EXCEPT !.currentTurn.Parts = @ \o parts])
  ELSE st

WatchToolResult(st, f, msg) ==
  IF ~st.currentTurn.open THEN st
  ELSE RebuildWith(st, DiffPartOf(f, msg) \o ToolPartOf(f, msg))

\* Lines 131-146: a genuine user line with the user filter on.
StartTurn(st, turn, turnNo) ==
  AppendBlock(st, turn, turnNo, CreateTurnBlock(turn, turnNo))

WatchUserText(st, userContent) ==
  IF userContent = <<>> THEN st
  ELSE StartTurn(st, OpenTurn(<<TurnPart("user", userContent, <<>>)>>, 0),
                 st.turnNumber + 1)

WatchUser(st, f, msg) == WatchUserText(st, ExtractUserContent(msg))

\* Lines 149-158: an assistant line.
WatchAssistant(st, f, msg) ==
  RebuildWith(st, PartIfText("assistant", ExtractAssistantContent(msg), <<>>))

\* Lines 78-159: the body of the loop over the complete lines of a read.
WatchLine(st, f, msg) ==
  IF msg.raw # "json" THEN st
  ELSE IF msg.type = "user" /\ isToolResultMessage(msg) THEN WatchToolResult(st, f, msg)
  ELSE IF msg.type = "user" /\ f.user THEN WatchUser(st, f, msg)
  ELSE IF msg.type = "assistant" /\ f.assistant /\ st.currentTurn.open
  THEN WatchAssistant(st, f, msg)
  ELSE st

-----------------------------------------------------------------------------
(* Values of the variables a specification does not use.                   *)

NoType == 0 - 1

TextIdle  == content = <<>> /\ ctype = NoType /\ hunks = <<>> /\ todos = NoTodos
IndexIdle == /\ nameIndex = <<>> /\ currentPos = 0 /\ currentPage = 0 /\ queued = 0
             /\ query = <<>> /\ found = -1
NoFilters == [set |-> FALSE, user |-> FALSE, assistant |-> FALSE, diff |-> FALSE,
              tool_result |-> FALSE]
NoParser  == <<>>
CliIdle   == inputPath = <<>> /\ parser = NoParser
ServerIdle ==
  /\ mu = <<>> /\ currentHTML = <<>> /\ fileModTime = 0 /\ lastModTime = 0
  /\ rendered = <<>> /\ wpc = "" /\ hpc = <<>> /\ page = <<>>
  /\ clients = {} /\ ch = <<>> /\ epc = <<>>
NoHist == [start |-> 0, written |-> 0, truncated |-> FALSE, detected |-> FALSE,
           mark |-> 0, stale |-> <<>>, joined |-> FALSE]
ReadIdle ==
  /\ fileBytes = <<>> /\ filePos = 0 /\ offset = 0 /\ partial = <<>>
  /\ dispatched = <<>> /\ handled = <<>> /\ hist = NoHist
ReloadIdle == reloads = <<>>
ViewIdle == contentTypes = <<>> /\ display = <<>> /\ terminalWidth = 0
ExtraIdle == CliIdle /\ ServerIdle /\ ReadIdle /\ ReloadIdle /\ ViewIdle
JsonlIdle == /\ jlines = <<>> /\ filters = NoFilters /\ lineNum = 0
             /\ currentTurn = ClosedTurn /\ turnNumber = 0 /\ currentBlockIdx = -1
             /\ turns = <<>> /\ appended = <<>>

-----------------------------------------------------------------------------
(* SpecDiff: the classifier, the hunk parser and the DiffParser applied    *)
(* to texts made of a few lines each.                                      *)

MaxDiffLines     == 4
MaxClassifyLines == 3

LFileOld  == <<"-", "-", "-", " ", "a">>
LFileNew  == <<"+", "+", "+", " ", "b", "/", "f">>
LHunk     == <<"@", "@", " ", "-", "1", ",", "2", " ", "+", "3", " ", "@", "@">>
LAdded    == <<"+", "x">>
LRemoved  == <<"-", " ", "y">>
LContext  == <<" ", "c">>
LEmpty    == <<>>
LDashes   == <<"-", "-", "-">>
LTableSep == <<"|", "-", "|">>
LTree     == <<"u251C", "f">>
LJson     == <<"{", "}">>
LKeyValue == <<"k", ":", " ", "v">>

DiffVocabulary == {LFileNew, LHunk, LAdded, LRemoved, LContext, LEmpty, LDashes}

ClassifyVocabulary ==
  {LFileOld, LHunk, LAdded, LRemoved, LEmpty, LDashes, LTableSep, LTree, LJson, LKeyValue}

DiffInputs ==
  {Join(ls, <<NL>>) : ls \in SeqUpTo(DiffVocabulary, MaxDiffLines)}
  \cup {Join(ls, <<NL>>) : ls \in SeqUpTo(ClassifyVocabulary, MaxClassifyLines)}

InitDiff ==
  /\ pc = "text"
  /\ content \in DiffInputs
  /\ ctype = NoType /\ hunks = <<>> /\ todos = NoTodos /\ blocks = <<>>
  /\ IndexIdle /\ JsonlIdle /\ ExtraIdle

\* DetectBlockContentType(content)
Classify ==
  /\ pc = "text"
  /\ ctype' = DetectBlockContentType(content)
  /\ pc' = "classified"
  /\ UNCHANGED <<extraVars, content, hunks, todos, blocks, indexVars, jsonlVars>>

\* ParseHunks(content)
Hunks ==
  /\ pc = "text"
  /\ hunks' = ParseHunks(content)
  /\ pc' = "hunks"
  /\ UNCHANGED <<extraVars, content, ctype, todos, blocks, indexVars, jsonlVars>>

\* (&DiffParser{}).Parse(content)
DiffParse ==
  /\ pc = "text"
  /\ blocks' = DiffParserParse(content)
  /\ pc' = "parsed"
  /\ UNCHANGED <<extraVars, content, ctype, hunks, todos, indexVars, jsonlVars>>

NextDiff == Classify \/ Hunks \/ DiffParse

SpecDiff == InitDiff /\ [][NextDiff]_vars

-----------------------------------------------------------------------------
(* Properties of the diff path.                                            *)

\* Line shapes, read off the first characters of a line.
StartsHunk(l)      == Len(l) >= 2 /\ l[1] = "@" /\ l[2] = "@"
TripleSign(l)      == Len(l) >= 3 /\ l[1] \in {"+", "-"} /\ l[2] = l[1] /\ l[3] = l[1]
FileHeaderLine(l)  == TripleSign(l) /\ Len(l) >= 4 /\ l[4] = " "
ChangeLine(l)      == Len(l) >= 1 /\ l[1] \in {"+", "-"} /\ ~TripleSign(l)
NotTripleSign(l)   == ~TripleSign(l)

HunkStarts(L) == {i \in 1..Len(L) : StartsHunk(L[i])}

\* Position of the k-th line starting with @@.
KthStart(L, k) ==
  CHOOSE i \in HunkStarts(L) : Cardinality({j \in HunkStarts(L) : j <= i}) = k

\* The lines that belong to the k-th hunk: those after its header and before
\* the next @@ line (or the end), file-header-like lines left out.
BodyOf(L, k) ==
  LET a == KthStart(L, k)
      b == IF k < Cardinality(HunkStarts(L)) THEN KthStart(L, k + 1) ELSE Len(L) + 1
  IN  SelectSeq(SubSeq(L, a + 1, b - 1), NotTripleSign)

ExpectedLineType(l) ==
  IF Len(l) >= 1 /\ l[1] = "+" THEN DiffAdded
  ELSE IF Len(l) >= 1 /\ l[1] = "-" THEN DiffRemoved
  ELSE DiffContext

CountType(ls, t) == Cardinality({j \in 1..Len(ls) : ls[j].Type = t})
CountFirst(ls, c) == Cardinality({j \in 1..Len(ls) : Len(ls[j]) >= 1 /\ ls[j][1] = c})

\* C8: for content the classifier accepts as a diff, with N lines beginning
\* with @@, DiffParser.Parse returns exactly one Block whose TotalPages, number
\* of Pages and number of PageTypes are N, every page type and the block's
\* content type being Diff and every page holding the whole diff text.
C8_DiffParserPagePerHunk ==
  (pc = "parsed" /\ DetectBlockContentType(content) = BlockContentDiff) =>
    LET N == Cardinality(HunkStarts(Split(content, NL))) IN
      /\ Len(blocks) = 1
      /\ blocks[1].TotalPages = N
      /\ Len(blocks[1].Pages) = N
      /\ Len(blocks[1].PageTypes) = N
      /\ \A i \in 1..Len(blocks[1].PageTypes) : blocks[1].PageTypes[i] = BlockContentDiff
      /\ blocks[1].ContentType = BlockContentDiff
      /\ \A i \in 1..Len(blocks[1].Pages) : blocks[1].Pages[i] = content

\* A two-hunk diff has been parsed into a two-page Block.
C8_Witness ==
  /\ pc = "parsed"
  /\ Len(blocks) = 1
  /\ blocks[1].ContentType = BlockContentDiff
  /\ blocks[1].TotalPages = 2

\* C9: ParseHunks returns one hunk per line beginning with @@, in order, the
\* last one included; each line of a hunk's body that does not begin with ---
\* or +++ is one DiffLine, in order, typed Added / Removed / Context by its
\* first character, so the Added and Removed counts are those of the + and -
\* lines; a text without @@ gives no hunk.
C9_HunkPerHeader ==
  pc = "hunks" =>
    LET L == Split(content, NL) IN
      /\ Len(hunks) = Cardinality(HunkStarts(L))
      /\ \A k \in 1..Len(hunks) :
           LET body == BodyOf(L, k) IN
             /\ hunks[k].Header = L[KthStart(L, k)]
             /\ Len(hunks[k].Lines) = Len(body)
             /\ \A j \in 1..Len(body) :
                  hunks[k].Lines[j].Type = ExpectedLineType(body[j])
             /\ CountType(hunks[k].Lines, DiffAdded) = CountFirst(body, "+")
             /\ CountType(hunks[k].Lines, DiffRemoved) = CountFirst(body, "-")

\* Two hunks were parsed, the first with an added and a removed line.
C9_Witness ==
  /\ pc = "hunks"
  /\ Len(hunks) = 2
  /\ CountType(hunks[1].Lines, DiffAdded) = 1
  /\ CountType(hunks[1].Lines, DiffRemoved) = 1

\* C10: DetectBlockContentType returns Diff exactly when the text has a line
\* starting with @@, a line starting with "--- " or "+++ " and a line starting
\* with + or - that is no +++/--- line; otherwise the first of Table, Tree,
\* JSON, YAML whose test accepts the text, else Plain; the empty string is
\* Plain.
C10_ClassifierOrder ==
  pc = "classified" =>
    LET L == Split(content, NL)
        diffShape == /\ \E i \in 1..Len(L) : StartsHunk(L[i])
                     /\ \E i \in 1..Len(L) : FileHeaderLine(L[i])
                     /\ \E i \in 1..Len(L) : ChangeLine(L[i])
    IN  /\ (ctype = BlockContentDiff) <=> diffShape
        /\ (ctype = BlockContentTable) <=> (~diffShape /\ isTable(content))
        /\ (ctype = BlockContentTree) <=>
              (~diffShape /\ ~isTable(content) /\ isTree(content))
        /\ (ctype = BlockContentJSON) <=>
              (~diffShape /\ ~isTable(content) /\ ~isTree(content) /\ isJSON(content))
        /\ (ctype = BlockContentYAML) <=>
              (~diffShape /\ ~isTable(content) /\ ~isTree(content)
                 /\ ~isJSON(content) /\ isYAML(content))
        /\ ctype \in {BlockContentDiff, BlockContentTable, BlockContentTree,
                      BlockContentJSON, BlockContentYAML, BlockContentPlain}
        /\ (content = <<>> => ctype = BlockContentPlain)

\* A text with all three diff markers has been classified as Diff.
C10_Witness ==
  /\ pc = "classified"
  /\ ctype = BlockContentDiff
  /\ Len(Split(content, NL)) = 3


-----------------------------------------------------------------------------
(* SpecParse: JSONLParser.Parse run line by line over a bounded transcript *)
(* under every filter setting.  pc "parse" is the call, "loop" the loop at *)
(* line lineNum (0-based, as in the code), "done" the return.              *)

MaxLines == 3

TextHi    == <<"h", "i">>
TextBye   == <<"b", "y", "e">>
TextReply == <<"o", "k", ".">>
TextOut   == <<"o", "u", "t">>
StdoutAnsi == <<ESC, "[", "3", "1", "m">> \o TextOut \o <<ESC, "[", "0", "m">>
PathF     == <<"a", "/", "f">>

PatchHunk ==
  [isMap |-> TRUE, oldStart |-> 1, oldLines |-> 1, newStart |-> 1, newLines |-> 1,
   lines |-> << <<"-", "x">>, <<"+", "y">> >>]

UserHi         == Msg("json", "user", StringContent(TextHi), NoToolUseResult)
UserBye        == Msg("json", "user", ArrayContent(<<Item("text", TextBye, <<>>)>>),
                      NoToolUseResult)
UserEmpty      == Msg("json", "user", StringContent(<<>>), NoToolUseResult)
AssistantReply == Msg("json", "assistant",
                      ArrayContent(<<Item("text", TextReply, <<>>)>>), NoToolUseResult)
ToolPatch      == Msg("json", "user", ArrayContent(<<Item("tool_result", <<>>, <<>>)>>),
                      ToolUseResult(TRUE, <<PatchHunk>>, TRUE, PathF, FALSE, <<>>))
ToolBash       == Msg("json", "user", ArrayContent(<<Item("tool_result", <<>>, TextOut)>>),
                      ToolUseResult(FALSE, <<>>, FALSE, <<>>, TRUE, StdoutAnsi))
SystemLine     == Msg("json", "system", NoContent, NoToolUseResult)
InvalidLine    == Msg("invalid", "", NoContent, NoToolUseResult)

Transcript ==
  {UserHi, UserBye, UserEmpty, AssistantReply, ToolPatch, ToolBash, SystemLine,
   InvalidLine}

FilterSettings ==
  {NoFilters} \cup [set : {TRUE}, user : BOOLEAN, assistant : BOOLEAN,
                    diff : BOOLEAN, tool_result : BOOLEAN]

InitParse ==
  /\ pc = "parse"
  /\ jlines \in SeqUpTo(Transcript, MaxLines)
  /\ filters \in FilterSettings
  /\ lineNum = 0 /\ currentTurn = ClosedTurn /\ turnNumber = 0
  /\ currentBlockIdx = -1 /\ turns = <<>> /\ appended = <<>>
  /\ blocks = <<>>
  /\ TextIdle /\ IndexIdle /\ ExtraIdle

\* The locals of Parse take the values of the loop state st.
ParseStateBecomes(st) ==
  /\ blocks' = st.blocks /\ turns' = st.turns
  /\ currentTurn' = st.currentTurn /\ turnNumber' = st.turnNumber

\* Parse, lines 203-216: the filters default when none are set.
ParseEnter ==
  /\ pc = "parse"
  /\ filters' = EffectiveFilters(filters)
  /\ pc' = "loop"
  /\ UNCHANGED <<extraVars, textVars, indexVars, blocks, jlines, lineNum, currentTurn,
                 turnNumber, currentBlockIdx, turns, appended>>

\* Parse, lines 218-303: one iteration of the loop.
ParseLoopStep ==
  /\ pc = "loop" /\ lineNum < Len(jlines)
  /\ ParseStateBecomes(ParseLine(ParseState(blocks, turns, currentTurn, turnNumber),
                                 filters, jlines[lineNum + 1], lineNum))
  /\ lineNum' = lineNum + 1
  /\ UNCHANGED <<extraVars, pc, textVars, indexVars, jlines, filters, currentBlockIdx, appended>>

\* Parse, lines 305-311: the last turn is emitted and the blocks returned.
ParseReturn ==
  /\ pc = "loop" /\ lineNum = Len(jlines)
  /\ ParseStateBecomes(ParseFlush(ParseState(blocks, turns, currentTurn, turnNumber)))
  /\ pc' = "done"
  /\ UNCHANGED <<extraVars, textVars, indexVars, jlines, filters, lineNum, currentBlockIdx,
                 appended>>

NextParse == ParseEnter \/ ParseLoopStep \/ ParseReturn

SpecParse == InitParse /\ [][NextParse]_vars

\* A user-typed line whose message.content array holds a tool_result item.
HasToolResultItem(msg) ==
  /\ msg.raw = "json" /\ msg.type = "user" /\ msg.content.kind = "array"
  /\ \E k \in 1..Len(msg.content.items) : msg.content.items[k].type = "tool_result"

\* A genuine user line, and the genuine user lines with non-empty text.
GenuineUserLine(msg) ==
  msg.raw = "json" /\ msg.type = "user" /\ ~HasToolResultItem(msg)

TurnStarts(lines) ==
  {i \in 1..Len(lines) :
     GenuineUserLine(lines[i]) /\ ExtractUserContent(lines[i]) # <<>>}

KthTurnStart(lines, k) ==
  CHOOSE i \in TurnStarts(lines) :
    Cardinality({j \in TurnStarts(lines) : j <= i}) = k

\* C2: with the user filter enabled, Parse returns one Block per genuine
\* user line with non-empty text, the i-th Block beginning with the user
\* part of the i-th such line; a user line with empty text emits nothing.
C2_BlockPerUserLine ==
  (pc = "done" /\ filters.user) =>
     /\ Len(blocks) = Cardinality(TurnStarts(jlines))
     /\ \A k \in 1..Len(turns) :
          /\ k <= Cardinality(TurnStarts(jlines))
          /\ turns[k][1] =
               TurnPart("user", ExtractUserContent(jlines[KthTurnStart(jlines, k)]), <<>>)

IsExtensionBy(old, new, types) ==
  /\ Len(new) >= Len(old)
  /\ SubSeq(new, 1, Len(old)) = old
  /\ \A k \in (Len(old) + 1)..Len(new) : new[k].Type \in types

\* C6: whatever the filters, a user-typed line holding a tool_result item
\* emits no Block, opens no turn and leaves the turn number alone; it only
\* appends diff / tool_result parts to a turn that is already open.
C6_ToolResultStartsNoBlock ==
  [][(pc = "loop" /\ lineNum < Len(jlines) /\ HasToolResultItem(jlines[lineNum + 1]))
       => /\ blocks' = blocks
          /\ turnNumber' = turnNumber
          /\ currentTurn'.open = currentTurn.open
          /\ currentTurn'.LineNum = currentTurn.LineNum
          /\ IsExtensionBy(currentTurn.Parts, currentTurn'.Parts, {"diff", "tool_result"})
          /\ (~currentTurn.open => currentTurn' = currentTurn)]_vars

C6_Witness ==
  /\ pc = "loop" /\ lineNum >= 2
  /\ HasToolResultItem(jlines[lineNum])
  /\ currentTurn.open
  /\ Len(currentTurn.Parts) >= 2
  /\ currentTurn.Parts[Len(currentTurn.Parts)].Type \in {"diff", "tool_result"}

GatedTypes == {"assistant", "diff", "tool_result"}

\* C7: every Block returned by Parse is the rendering of its turn's parts,
\* and a part of type assistant, diff or tool_result is among them only if
\* the filter of that name is enabled; with assistant off no Block shows
\* the text of an assistant line.
C7_FilterGating ==
  pc # "parse" =>
    /\ Len(turns) = Len(blocks)
    /\ \A i \in 1..Len(turns) :
         /\ blocks[i].Content =
              Join(ContentParts(turns[i]), <<NL, NL>>)
         /\ \A j \in 1..Len(turns[i]) :
              turns[i][j].Type \in GatedTypes => filters[turns[i][j].Type]
         /\ ~filters.assistant => ~StrContains(blocks[i].Content, TextReply)
    /\ \A j \in 1..Len(currentTurn.Parts) :
         currentTurn.Parts[j].Type \in GatedTypes => filters[currentTurn.Parts[j].Type]

C7_Witness ==
  /\ pc = "done" /\ filters.user /\ ~filters.assistant /\ filters.diff
  /\ Len(blocks) >= 1
  /\ \E i, j, k \in 1..Len(jlines) :
       /\ i < j /\ j < k
       /\ jlines[i] = UserHi /\ jlines[j] = AssistantReply /\ jlines[k] = ToolPatch
  /\ \E j \in 1..Len(turns[1]) : turns[1][j].Type = "diff"


-----------------------------------------------------------------------------
(* part_002 FormatBlockPage / FormatDiffPage, formatter_diff.go FormatHunk *)
(* and the Navigator's moves: what is written to the view.                 *)
(*                                                                         *)
(* A rendered page is the string the code builds; display holds the text  *)
(* the view was last given: tview.TranslateANSI of the rendering.          *)
(* Navigator.history, which saveHistory appends to, is read by no code and *)
(* is not kept.                                                            *)

\* a \o b \o c, unless one of the calls panicked
Concat3(a, b, c) == IF a = Panic \/ b = Panic \/ c = Panic THEN Panic ELSE a \o b \o c

\* part_003 parsePositiveInt: the number, -1 for the error.  (The int wraps
\* around beyond 19 digits; the model's environments hold a few digits.)
parsePositiveInt(s) ==
  IF \E i \in 1..Len(s) : ~IsDigit(s[i]) THEN -1
  ELSE IF Atoi(s) <= 0 THEN -1
  ELSE Atoi(s)

\* What detectTerminalWidth reads: the width term.GetSize gives for standard
\* output (0 when it is no terminal, or on an error) and $COLUMNS.
Environment(size, columns) == [size |-> size, columns |-> columns]

\* part_003 detectTerminalWidth
detectTerminalWidth(env) ==
  IF env.size > 0 THEN env.size
  ELSE IF env.columns # <<>> /\ parsePositiveInt(env.columns) # -1
  THEN parsePositiveInt(env.columns)
  ELSE 80

\* No terminal and no COLUMNS, a terminal, COLUMNS alone, COLUMNS that is
\* no number.
NoEnvironment == Environment(0, <<>>)
Environments ==
  {NoEnvironment, Environment(20, <<"8", "0">>), Environment(0, <<"2", "0">>),
   Environment(0, <<"4", "x">>)}

\* DefaultDiffColors
DefaultDiffColors ==
  [AddedText   |-> <<ESC>> \o <<"[", "3", "8", ";", "2", ";", "2", "5", "5", ";", "2", "5", "5", ";", "2", "5", "5", "m">>,
   RemovedText |-> <<ESC>> \o <<"[", "3", "8", ";", "2", ";", "2", "5", "5", ";", "2", "5", "5", ";", "2", "5", "5", "m">>,
   ContextText |-> <<ESC>> \o <<"[", "3", "8", ";", "2", ";", "1", "2", "8", ";", "1", "2", "8", ";", "1", "2", "8", "m">>,
   HeaderText  |-> <<ESC>> \o <<"[", "3", "8", ";", "2", ";", "1", "2", "8", ";", "1", "2", "8", ";", "1", "2", "8", "m">>,
   AddedBg     |-> <<ESC>> \o <<"[", "4", "8", ";", "2", ";", "4", "5", ";", "9", "0", ";", "4", "5", "m">>,
   RemovedBg   |-> <<ESC>> \o <<"[", "4", "8", ";", "2", ";", "9", "0", ";", "4", "5", ";", "9", "0", "m">>,
   Reset       |-> <<ESC>> \o <<"[", "0", "m">>]

\* formatLine: content padded to width bytes
PaddedContent(text, width) ==
  text \o Repeat(" ", IF width - ByteLength(text) < 0 THEN 0
                      ELSE width - ByteLength(text))

formatLine(line, width) ==
  IF line.Type = DiffAdded
  THEN <<" ", " ", " ", " ">> \o DefaultDiffColors.AddedBg \o DefaultDiffColors.AddedText
         \o PaddedContent(line.Content, width) \o DefaultDiffColors.Reset
  ELSE IF line.Type = DiffRemoved
  THEN <<" ", " ", " ", " ">> \o DefaultDiffColors.RemovedBg \o DefaultDiffColors.RemovedText
         \o PaddedContent(line.Content, width) \o DefaultDiffColors.Reset
  ELSE IF line.Type = DiffContext
  THEN <<" ", " ", " ", " ">> \o DefaultDiffColors.ContextText \o line.Content
         \o DefaultDiffColors.Reset
  ELSE <<" ", " ", " ", " ">> \o line.Content

\* The position after the run of \s, and of \w, that starts at position p.
SpaceEnd(str, p) == LeastOr({i \in p..Len(str) : str[i] \notin RegexSpace}, Len(str) + 1)
WordEnd(str, p)  == LeastOr({i \in p..Len(str) : ~IsWordChar(str[i])}, Len(str) + 1)

\* ([a-zA-Z0-9_]+) at position p: the name, <<>> when there is none
NameFrom(str, p) == SubSeq(str, p, WordEnd(str, p) - 1)

\* kw\s+([a-zA-Z0-9_]+) at position i
KeywordNameAt(str, i, kw) ==
  IF OccursAt(str, i, kw) /\ SpaceEnd(str, i + Len(kw)) > i + Len(kw)
  THEN NameFrom(str, SpaceEnd(str, i + Len(kw)))
  ELSE <<>>

\* \s*c at position p
FollowedBy(str, p, c) == SpaceEnd(str, p) <= Len(str) /\ str[SpaceEnd(str, p)] = c

\* goFunc: func\s+([a-zA-Z0-9_]+)\s*\( at position i
GoFuncAt(str, i) ==
  IF /\ KeywordNameAt(str, i, <<"f", "u", "n", "c">>) # <<>>
     /\ FollowedBy(str, WordEnd(str, SpaceEnd(str, i + 4)), "(")
  THEN KeywordNameAt(str, i, <<"f", "u", "n", "c">>)
  ELSE <<>>

\* pyFunc: (?:def|class)\s+([a-zA-Z0-9_]+) at position i
PyFuncAt(str, i) ==
  IF KeywordNameAt(str, i, <<"d", "e", "f">>) # <<>> THEN KeywordNameAt(str, i, <<"d", "e", "f">>)
  ELSE KeywordNameAt(str, i, <<"c", "l", "a", "s", "s">>)

\* ([a-zA-Z0-9_]+)\s*=\s*\( at position i
AssignedAt(str, i) ==
  IF /\ NameFrom(str, i) # <<>>
     /\ FollowedBy(str, WordEnd(str, i), "=")
     /\ FollowedBy(str, SpaceEnd(str, WordEnd(str, i)) + 1, "(")
  THEN NameFrom(str, i)
  ELSE <<>>

\* jsFunc at position i: the alternatives in their order; the name is the
\* group that is not empty.
JsFuncAt(str, i) ==
  IF KeywordNameAt(str, i, <<"f", "u", "n", "c", "t", "i", "o", "n">>) # <<>>
  THEN KeywordNameAt(str, i, <<"f", "u", "n", "c", "t", "i", "o", "n">>)
  ELSE IF AssignedAt(str, i) # <<>> THEN AssignedAt(str, i)
  ELSE KeywordNameAt(str, i, <<"c", "l", "a", "s", "s">>)

\* FindStringSubmatch: the leftmost match, as the names found at each
\* position of the line.
LeftmostName(names) ==
  IF \E i \in 1..Len(names) : names[i] # <<>>
  THEN << names[LeastOr({i \in 1..Len(names) : names[i] # <<>>}, 0)] \o <<"(", ")">> >>
  ELSE <<>>

LineFunctions(str) ==
  LeftmostName([i \in 1..Len(str) |-> GoFuncAt(str, i)])
    \o LeftmostName([i \in 1..Len(str) |-> PyFuncAt(str, i)])
    \o LeftmostName([i \in 1..Len(str) |-> JsFuncAt(str, i)])

RECURSIVE HunkFunctions(_)
HunkFunctions(lines) ==
  IF Len(lines) = 0 THEN <<>>
  ELSE LineFunctions(lines[1].Content) \o HunkFunctions(Tail(lines))

\* if !seen[name]: a name is kept where it comes first
Unseen(names) ==
  SelectSeq([i \in 1..Len(names) |->
               IF \E j \in 1..(i - 1) : names[j] = names[i] THEN <<>> ELSE names[i]],
            LAMBDA n : n # <<>>)

\* detectFunctions
FunctionsLine(functions) ==
  IF Len(functions) > 0 THEN <<"a", "f", "f", "e", "c", "t", "s", ":", " ">> \o Join(functions, <<" ">>) ELSE <<>>

detectFunctions(hunk) == FunctionsLine(Unseen(HunkFunctions(hunk.Lines)))

RECURSIVE FormatLines(_, _)
FormatLines(lines, width) ==
  IF Len(lines) = 0 THEN <<>>
  ELSE formatLine(lines[1], width) \o <<NL>> \o FormatLines(Tail(lines), width)

\* FormatHunk, lines 173-176: ShowFuncContext is true in NewDiffFormatter.
FuncContext(funcContext) ==
  IF funcContext # <<>>
  THEN <<NL, " ", " ">> \o DefaultDiffColors.HeaderText \o funcContext
         \o DefaultDiffColors.Reset
  ELSE <<>>

ContentWidth(width) == IF width - 4 < 40 THEN 40 ELSE width - 4

\* FormatHunk of a formatter of the given Width
FormatHunk(hunk, width) ==
  FormatLines(hunk.Lines, ContentWidth(width)) \o FuncContext(detectFunctions(hunk))

\* tview.TranslateANSI (ansi.go of github.com/rivo/tview, which the
\* sources import): escape sequences become style tags.  The writer is in
\* the state ansiText, ansiEscape (after ESC), ansiControlSequence (after
\* ESC [) or ansiSubstring; attributes are the text attributes in force.
\* A styling tag kept as one element passes as text, and is taken apart
\* where an escape sequence runs into it.
IsAtom(c) == Len(c) > 1 /\ SubSeq(c, 1, 1) \notin {"u", "x"}

ExpandAt(s, j) == SubSeq(s, 1, j - 1) \o Chars(s[j]) \o SubSeq(s, j + 1, Len(s))

\* lo <= r <= hi for the rune of an element that is no tag
RuneIn(c, lo, hi) ==
  /\ ~IsRawByte(c) /\ ~IsAtom(c)
  /\ lo <= CodePoint(c) /\ CodePoint(c) <= hi

\* strconv.Atoi with the error dropped: 0 for what is no number
AtoiOrZero(field) ==
  IF Len(field) > 0 /\ \A i \in 1..Len(field) : IsDigit(field[i]) THEN Atoi(field) ELSE 0

\* fmt.Sprintf("%02x", n), n >= 0
RECURSIVE LowerHex(_)
LowerHex(n) ==
  IF n < 16 THEN <<HexLowerChars[n + 1]>>
  ELSE LowerHex(n \div 16) \o <<HexLowerChars[(n % 16) + 1]>>

Sprintf02x(n) == IF n < 16 THEN <<"0">> \o LowerHex(n) ELSE LowerHex(n)

HexColor(red, green, blue) ==
  <<"#">> \o Sprintf02x(red) \o Sprintf02x(green) \o Sprintf02x(blue)

ColorNames ==
  <<"black", "maroon", "green", "olive", "navy", "purple", "teal", "silver",
    "gray", "red", "lime", "yellow", "blue", "fuchsia", "aqua", "white">>

lookupColor(colorNumber) ==
  IF colorNumber < 0 \/ colorNumber > 15 THEN Chars("black")
  ELSE Chars(ColorNames[colorNumber + 1])

\* 8-bit colours: the 16 names, the 6x6x6 cube, the grey ramp
Color256(colorNumber) ==
  IF colorNumber <= 15 THEN lookupColor(colorNumber)
  ELSE IF colorNumber <= 231
  THEN HexColor((255 * ((colorNumber - 16) \div 36)) \div 5,
                (255 * (((colorNumber - 16) \div 6) % 6)) \div 5,
                (255 * ((colorNumber - 16) % 6)) \div 5)
  ELSE IF colorNumber <= 255
  THEN HexColor((255 * (colorNumber - 232)) \div 23, (255 * (colorNumber - 232)) \div 23,
                (255 * (colorNumber - 232)) \div 23)
  ELSE <<>>

\* The colour that follows field 38 or 48 at index, <<>> when there is none.
ExtendedColor(fields, index) ==
  IF Len(fields) > index /\ fields[index + 1] = <<"5">> /\ Len(fields) > index + 1
  THEN Color256(AtoiOrZero(fields[index + 2]))
  ELSE IF Len(fields) > index /\ fields[index + 1] = <<"2">> /\ Len(fields) > index + 3
  THEN HexColor(AtoiOrZero(fields[index + 2]), AtoiOrZero(fields[index + 3]),
                AtoiOrZero(fields[index + 4]))
  ELSE <<>>

\* The attribute a field switches on, and the attributes it switches off.
AttributeOn(field) ==
  IF field \in {<<"1">>, <<"0", "1">>} THEN <<"b">>
  ELSE IF field \in {<<"2">>, <<"0", "2">>} THEN <<"d">>
  ELSE IF field \in {<<"3">>, <<"0", "3">>} THEN <<"i">>
  ELSE IF field \in {<<"4">>, <<"0", "4">>} THEN <<"u">>
  ELSE IF field \in {<<"5">>, <<"0", "5">>} THEN <<"l">>
  ELSE IF field \in {<<"7">>, <<"0", "7">>} THEN <<"r">>
  ELSE IF field \in {<<"9">>, <<"0", "9">>} THEN <<"s">>
  ELSE <<>>

AttributesOff(field) ==
  IF field = <<"2", "2">> THEN {"b", "d"}
  ELSE IF field = <<"2", "3">> THEN {"i"}
  ELSE IF field = <<"2", "4">> THEN {"u"}
  ELSE IF field = <<"2", "5">> THEN {"l"}
  ELSE IF field = <<"2", "7">> THEN {"r"}
  ELSE IF field = <<"2", "9">> THEN {"s"}
  ELSE {}

AttributesAfter(attributes, field) ==
  IF AttributeOn(field) # <<>>
  THEN (IF \E i \in 1..Len(attributes) : attributes[i] = AttributeOn(field)[1]
        THEN attributes ELSE attributes \o AttributeOn(field))
  ELSE SelectSeq(attributes, LAMBDA a : a \notin AttributesOff(field))

\* The foreground (base 30, or 90 for the bright colours) or background
\* (base 40, or 100) a two- or three-digit field selects, <<>> for none.
FieldColor(field, base, bright, default) ==
  IF field = default THEN <<"-">>
  ELSE IF Len(field) \in {2, 3} /\ (\A i \in 1..Len(field) : IsDigit(field[i]))
          /\ field[1] # "0"
  THEN (IF Atoi(field) >= base /\ Atoi(field) <= base + 7
        THEN lookupColor(Atoi(field) - base)
        ELSE IF Atoi(field) >= bright /\ Atoi(field) <= bright + 7
        THEN lookupColor(Atoi(field) - bright + 8)
        ELSE <<>>)
  ELSE <<>>

Graphics(foreground, background, attributes) ==
  [foreground |-> foreground, background |-> background, attributes |-> attributes]

\* FieldLoop: the fields in their order; 38 and 48 end the loop.
RECURSIVE FieldLoop(_, _, _)
FieldStep(fields, index, g, fg, bg) ==
  IF fields[index] = <<"3", "8">>
  THEN Graphics(IF ExtendedColor(fields, index) # <<>> THEN ExtendedColor(fields, index)
                ELSE g.foreground, g.background, g.attributes)
  ELSE IF fields[index] = <<"4", "8">>
  THEN Graphics(g.foreground,
                IF ExtendedColor(fields, index) # <<>> THEN ExtendedColor(fields, index)
                ELSE g.background, g.attributes)
  ELSE FieldLoop(fields, index + 1,
                 Graphics(IF fg # <<>> THEN fg ELSE g.foreground,
                          IF bg # <<>> THEN bg ELSE g.background,
                          AttributesAfter(g.attributes, fields[index])))

FieldLoop(fields, index, g) ==
  IF index > Len(fields) THEN g
  ELSE FieldStep(fields, index, g,
                 FieldColor(fields[index], 30, 90, <<"3", "9">>),
                 FieldColor(fields[index], 40, 100, <<"4", "9">>))

\* The tag written for the colours and attributes in force after m.
GraphicsTag(g) ==
  IF g.foreground # <<>> \/ g.background # <<>> \/ g.attributes # <<>>
  THEN <<"[">> \o g.foreground \o <<":">> \o g.background
         \o (IF g.attributes # <<>> THEN <<":">> ELSE <<>>) \o g.attributes \o <<"]">>
  ELSE <<>>

IsReset(params) == Len(params) = 0 \/ params = <<"0">>

RECURSIVE TranslateFrom(_, _, _)
RECURSIVE EscapeAt(_, _, _)

\* Select Graphic Rendition with the parameter bytes params; the text goes
\* on at position q.
GraphicsThen(s, q, g) == GraphicsTag(g) \o TranslateFrom(s, q, g.attributes)

SelectGraphics(s, q, attributes, params) ==
  IF IsReset(params) THEN Chars("[-:-:-]") \o TranslateFrom(s, q, <<>>)
  ELSE GraphicsThen(s, q, FieldLoop(Split(params, ";"), 1, Graphics(<<>>, <<>>, attributes)))

\* The control sequence whose bytes after ESC [ end before position q.
FinalByte(s, q, attributes, params) ==
  IF q > Len(s) THEN <<>>
  ELSE IF IsAtom(s[q]) THEN TranslateFrom(ExpandAt(s, q), q + 1, attributes)
  ELSE IF s[q] = "E"
  THEN Repeat(NL, IF AtoiOrZero(params) = 0 THEN 1 ELSE AtoiOrZero(params))
         \o TranslateFrom(s, q + 1, attributes)
  ELSE IF s[q] = "m" THEN SelectGraphics(s, q + 1, attributes, params)
  ELSE TranslateFrom(s, q + 1, attributes)

\* ansiControlSequence from position p: parameter bytes 0x30-0x3f and
\* intermediate bytes 0x20-0x2f up to the final byte, or to a byte that
\* aborts the sequence.
ControlSequence(s, p, attributes, q) ==
  FinalByte(s, q, attributes,
            SelectSeq(SubSeq(s, p, q - 1), LAMBDA c : RuneIn(c, 48, 63)))

\* ansiSubstring: all is dropped up to the next ESC.
SubstringTo(s, e, attributes) ==
  IF e = 0 THEN <<>> ELSE EscapeAt(s, e + 1, attributes)

\* ansiEscape at position j
EscapeAt(s, j, attributes) ==
  IF j > Len(s) THEN <<>>
  ELSE IF IsAtom(s[j]) THEN EscapeAt(ExpandAt(s, j), j, attributes)
  ELSE IF s[j] = "["
  THEN ControlSequence(s, j + 1, attributes,
                       LeastOr({q \in (j + 1)..Len(s) : ~RuneIn(s[q], 32, 63)}, Len(s) + 1))
  ELSE IF s[j] = "c" THEN Chars("[-:-:-]") \o TranslateFrom(s, j + 1, attributes)
  ELSE IF s[j] \in {"P", "]", "X", "^", "_"}
  THEN SubstringTo(s, LeastOr({e \in (j + 1)..Len(s) : s[e] = ESC}, 0), attributes)
  ELSE TranslateFrom(s, j + 1, attributes)

\* ansiText from position i up to the ESC at position e (0: none): the
\* runes are written as they are, a byte that is no character as U+FFFD.
TextTo(s, i, attributes, e) ==
  IF e = 0 THEN Runes(SubSeq(s, i, Len(s)))
  ELSE Runes(SubSeq(s, i, e - 1)) \o EscapeAt(s, e + 1, attributes)

TranslateFrom(s, i, attributes) ==
  TextTo(s, i, attributes, LeastOr({e \in i..Len(s) : s[e] = ESC}, 0))

TranslateANSI(text) == IF text = Panic THEN Panic ELSE TranslateFrom(text, 1, <<>>)

\* part_002, the BorderStyle values
BorderNone    == "none"
BorderLeft    == "left"
BorderMinimal == "minimal"
BorderBox     == "box"
BorderDouble  == "double"
BorderRounded == "rounded"

\* BorderRenderer.RenderLine
RenderLine(style, line, isEmpty) ==
  IF style = BorderLeft
  THEN (IF isEmpty THEN <<"u258C">> ELSE <<"u258C", " ">> \o line)
  ELSE IF style = BorderMinimal
  THEN (IF isEmpty THEN <<"u2502">> ELSE <<"u2502", " ">> \o line)
  ELSE IF style \in {BorderNone, BorderBox, BorderDouble, BorderRounded} /\ isEmpty
  THEN <<>>
  ELSE line

\* BorderRenderer.IsBoxStyle
IsBoxStyle(style) == style \in {BorderBox, BorderDouble, BorderRounded}

\* BorderRenderer.GetContentIndent
GetContentIndent(style) ==
  IF style \in {BorderLeft, BorderMinimal} THEN 2
  ELSE IF IsBoxStyle(style) THEN 4
  ELSE 0

\* The corners and edges of a box style: top left, top right, bottom left,
\* bottom right, horizontal, vertical.
BoxEdges(style) ==
  IF style = BorderDouble
  THEN [tl |-> "u2554", tr |-> "u2557", bl |-> "u255A", br |-> "u255D", h |-> "u2550",
        v |-> "u2551"]
  ELSE IF style = BorderRounded
  THEN [tl |-> "u256D", tr |-> "u256E", bl |-> "u2570", br |-> "u256F", h |-> "u2500",
        v |-> "u2502"]
  ELSE [tl |-> "u250C", tr |-> "u2510", bl |-> "u2514", br |-> "u2518", h |-> "u2500",
        v |-> "u2502"]

\* RenderBlockStart, lines 77-81: the header cut to maxHeaderLen bytes
CutHeader(header, maxHeaderLen) ==
  IF ByteLength(header) > maxHeaderLen
  THEN BytePrefix(header, maxHeaderLen - 3) \o <<".", ".", ".">>
  ELSE header

\* RenderBlockStart, lines 83-101: strings.Repeat panics on a negative count
BoxStart(box, header, width) ==
  IF width - 2 < 0 \/ width - 4 - ByteLength(header) < 0 THEN Panic
  ELSE <<box.tl>> \o Repeat(box.h, width - 2) \o <<box.tr, NL, box.v, " ">> \o header
         \o Repeat(" ", width - 4 - ByteLength(header)) \o <<" ", box.v>>

\* BorderRenderer.RenderBlockStart
RenderBlockStart(style, blockName, pageInfo, width) ==
  IF IsBoxStyle(style)
  THEN BoxStart(BoxEdges(style),
                CutHeader(IF pageInfo # <<>> THEN blockName \o <<" ">> \o pageInfo
                          ELSE blockName,
                          IF width - 6 < 10 THEN 10 ELSE width - 6),
                width)
  ELSE <<>>

\* BorderRenderer.RenderBlockEnd
RenderBlockEnd(style, width) ==
  IF ~IsBoxStyle(style) THEN <<>>
  ELSE IF width - 2 < 0 THEN Panic
  ELSE <<BoxEdges(style).bl>> \o Repeat(BoxEdges(style).h, width - 2)
         \o <<BoxEdges(style).br>>

\* fmt.Sprintf("[%d/%d]", pageNum+1, block.TotalPages)
PageIndicator(block, pageNum) ==
  <<"[">> \o Itoa(pageNum + 1) \o <<"/">> \o Itoa(block.TotalPages) \o <<"]">>

\* spacing, at least 1
Spacing(n) == Repeat(" ", IF n < 1 THEN 1 ELSE n)

\* FormatDiffPage, lines 321-330: the diff pages before pageNum that carry
\* the same file name in PageMeta.
DiffPagesBefore(block, pageNum, filename) ==
  Cardinality({i \in 0..(pageNum - 1) :
                 /\ Len(block.PageTypes) > i /\ block.PageTypes[i + 1] = BlockContentDiff
                 /\ Len(block.PageMeta) > i /\ block.PageMeta[i + 1] = filename})

\* FormatDiffPage, lines 332-335: the index is clamped.
ClampHunkIndex(hunkIndex, n) == IF hunkIndex >= n THEN n - 1 ELSE hunkIndex

\* FormatDiffPage, lines 340-347: the file name of the header.
DiffPageFile(filename, diffContent) ==
  IF filename # <<>> THEN filename
  ELSE IF GetFileFromDiff(diffContent) # <<>> THEN GetFileFromDiff(diffContent)
  ELSE <<"d", "i", "f", "f">>

\* FormatDiffPage, lines 358-362: the file name after its last "/"
DiffDisplayName(filename) ==
  IF LastIndex(filename, <<"/">>) >= 0
  THEN SubSeq(filename, LastIndex(filename, <<"/">>) + 2, Len(filename))
  ELSE filename

\* FormatDiffPage, lines 364-371
DiffHeader(block, termWidth, displayName, pageIndicator) ==
  <<" ">> \o block.Name \o Chars("  [green]") \o displayName \o Chars("[-]")
    \o Spacing(termWidth - ByteLength(block.Name) - ByteLength(displayName)
                 - ByteLength(pageIndicator) - 8)
    \o pageIndicator

\* FormatDiffPage, lines 337-377: the page that shows hunk number hunkIndex
DiffPageShowing(block, pageNum, termWidth, filename, hs, hunkIndex) ==
  <<NL>>
    \o DiffHeader(block, termWidth, DiffDisplayName(filename), PageIndicator(block, pageNum))
    \o <<NL, NL>> \o FormatHunk(hs[hunkIndex + 1], termWidth)

DiffPageOf(block, pageNum, termWidth, filename, hs) ==
  IF Len(hs) = 0 THEN block.Pages[pageNum + 1]
  ELSE DiffPageShowing(block, pageNum, termWidth,
                       DiffPageFile(filename, block.Pages[pageNum + 1]), hs,
                       ClampHunkIndex(DiffPagesBefore(block, pageNum, filename), Len(hs)))

\* FormatDiffPage
FormatDiffPage(block, pageNum, termWidth, filename) ==
  IF pageNum < 0 \/ pageNum >= Len(block.Pages) THEN <<>>
  ELSE DiffPageOf(block, pageNum, termWidth, filename, ParseHunks(block.Pages[pageNum + 1]))

PageTypeOf(block, pageNum) ==
  IF Len(block.PageTypes) > pageNum THEN block.PageTypes[pageNum + 1]
  ELSE block.ContentType

PageMetaOf(block, pageNum) ==
  IF Len(block.PageMeta) > pageNum THEN block.PageMeta[pageNum + 1] ELSE <<>>

\* FormatBlockPage, lines 178-193: the name shown in the header
SourceName(block, displayName) ==
  IF block.SourceType = SourceChat
  THEN (IF TrimPrefix(displayName, Chars("block-")) # displayName
        THEN Chars("[#b294bb]chat[-] [#808080]")
               \o TrimPrefix(displayName, Chars("block-")) \o Chars("[-]")
        ELSE displayName)
  ELSE IF block.SourceType = SourceShell THEN Chars("[#99b494]shell[-]")
  ELSE displayName

DisplayName(block, pageNum) ==
  SourceName(block, IF PageMetaOf(block, pageNum) # <<>> THEN PageMetaOf(block, pageNum)
                    ELSE block.Name)

\* FormatBlockPage, lines 227-229 and 234-236: padded to the terminal width
PadTo(header, termWidth) ==
  IF ByteLength(header) < termWidth
  THEN header \o Repeat(" ", termWidth - ByteLength(header))
  ELSE header

\* FormatBlockPage, lines 211-253: the header of the styles without a box
PlainHeader(block, pageNum, termWidth, style, displayName, pageIndicator) ==
  IF block.SourceType = SourceMarkdown
  THEN Chars("[white:#333333]")
         \o PadTo(IF block.TotalPages > 1
                  THEN <<" ">> \o displayName
                         \o Spacing(termWidth - ByteLength(displayName)
                                      - ByteLength(pageIndicator) - 4)
                         \o pageIndicator \o <<" ">>
                  ELSE <<" ">> \o displayName \o <<" ">>,
                  termWidth)
         \o Chars("[-:-:-]")
  ELSE IF block.TotalPages > 1
  THEN <<" ">> \o RenderLine(style, displayName
                                      \o Spacing(termWidth - ByteLength(displayName)
                                                   - ByteLength(pageIndicator) - 4)
                                      \o pageIndicator, FALSE)
  ELSE <<" ">> \o RenderLine(style, displayName, FALSE)

\* FormatBlockPage, lines 199-255: the header and the line end after it (a
\* box style writes the line end after a start that is not empty).
PageHeader(block, pageNum, termWidth, style, displayName) ==
  IF IsBoxStyle(style)
  THEN Concat3(RenderBlockStart(style, displayName,
                                IF block.TotalPages > 1 THEN PageIndicator(block, pageNum)
                                ELSE <<>>, termWidth),
               <<NL>>, <<>>)
  ELSE PlainHeader(block, pageNum, termWidth, style, displayName,
                   PageIndicator(block, pageNum)) \o <<NL>>

\* FormatBlockPage, lines 260-281: one content line
ContentLine(line, termWidth, contentWidth, style) ==
  IF IsBoxStyle(style)
  THEN (IF line = <<>>
        THEN (IF termWidth - 2 < 0 THEN Panic
              ELSE <<"u2502">> \o Repeat(" ", termWidth - 2) \o <<"u2502">>)
        ELSE <<"u2502", " ">> \o PadTo(line, contentWidth) \o <<" ", "u2502">>)
  ELSE IF line = <<>> THEN RenderLine(style, <<>>, TRUE)
  ELSE <<" ">> \o RenderLine(style, line, FALSE)

\* Every line followed by a line end, unless a line panicked.
LinesOrPanic(lines) ==
  IF \E i \in 1..Len(lines) : lines[i] = Panic THEN Panic
  ELSE Join(lines, <<NL>>) \o <<NL>>

ContentLines(lines, termWidth, contentWidth, style) ==
  LinesOrPanic([i \in 1..Len(lines) |->
                  ContentLine(lines[i], termWidth, contentWidth, style)])

\* FormatBlockPage, lines 284-294
PageEnd(termWidth, style) ==
  IF IsBoxStyle(style) THEN Concat3(RenderBlockEnd(style, termWidth), <<NL>>, <<>>)
  ELSE RenderLine(style, <<>>, TRUE) \o <<NL>>

\* FormatBlockPage, lines 195-296: the output for the rendered markdown
PlainPage(block, pageNum, termWidth, style, markdown) ==
  IF markdown = Panic THEN Panic
  ELSE Concat3(<<NL>> ,
               Concat3(PageHeader(block, pageNum, termWidth, style,
                                  DisplayName(block, pageNum)),
                       ContentLines(Split(markdown, NL), termWidth,
                                    termWidth - GetContentIndent(style), style),
                       <<>>),
               PageEnd(termWidth, style))

\* FormatBlockPage, lines 147-176, for pageNum within the pages
FormatBlockPageAt(block, pageNum, termWidth, borderStyle) ==
  IF Len(block.Pages) = 0 THEN Panic
  ELSE IF PageTypeOf(block, pageNum) = BlockContentDiff
  THEN FormatDiffPage(block, pageNum, termWidth, PageMetaOf(block, pageNum))
  ELSE PlainPage(block, pageNum, termWidth, borderStyle,
                 formatMarkdown(TranslateANSI(block.Pages[pageNum + 1]),
                                termWidth - GetContentIndent(borderStyle)))

\* FormatBlockPage (block not nil): pageNum out of range becomes 0.
FormatBlockPage(block, pageNum, termWidth, borderStyle) ==
  FormatBlockPageAt(block,
                    IF pageNum < 0 \/ pageNum >= Len(block.Pages) THEN 0 ELSE pageNum,
                    termWidth, borderStyle)

\* reader.go renderAllContent: every page of every block, in order.
RECURSIVE renderAllFrom(_, _, _, _, _)
renderAllFrom(bs, i, pg, width, borderStyle) ==
  IF i >= Len(bs) THEN <<>>
  ELSE IF pg >= bs[i + 1].TotalPages THEN renderAllFrom(bs, i + 1, 0, width, borderStyle)
  ELSE Concat3(FormatBlockPage(bs[i + 1], pg, width, borderStyle),
               renderAllFrom(bs, i, pg + 1, width, borderStyle), <<>>)

renderAllContent(bs, width, borderStyle) == renderAllFrom(bs, 0, 0, width, borderStyle)

\* textView.SetText(tview.TranslateANSI(rendered)) for the current page of
\* the current block; nothing is written when GetCurrentBlock is nil.
ShowsCurrent(bs, pos, pg) ==
  display' = IF GetBlockByPosition(bs, pos) >= 0
             THEN TranslateANSI(FormatBlockPage(bs[pos + 1], pg, terminalWidth,
                                                BorderNone))
             ELSE display

\* Navigator.handleNext
handleNext(bs, pos) == IF pos + 1 >= Len(bs) THEN pos ELSE pos + 1

\* Navigator.handlePrev
handlePrev(bs, pos) == IF pos <= 0 THEN pos ELSE pos - 1

\* The key handlers read index.blocks on the UI thread while watchFile
\* writes it in a goroutine of its own, with no lock between them (lines 44
\* and 140 against 284-331).  Neither write is one store: line 140 makes
\* the slice one longer and copies the Block into the new place, line 44
\* copies the Block over the old one.  A handler that runs during the write
\* reads a Block with some fields written and the others not yet: those of
\* the Block replaced, or zero in a new place.  The copy is taken to run
\* through the fields in the order of the struct, from either end.

\* The value of a place not yet written.
ZeroBlock == MkBlock(<<>>, <<>>, 0, <<>>, 0, BlockContentPlain, <<>>, <<>>, <<>>)

\* old with the fields numbered in W written from new.
CopiedFields(old, new, W) ==
  MkBlock(IF 1 \in W THEN new.Name ELSE old.Name,
          IF 2 \in W THEN new.Content ELSE old.Content,
          IF 3 \in W THEN new.LineNum ELSE old.LineNum,
          IF 4 \in W THEN new.Pages ELSE old.Pages,
          IF 5 \in W THEN new.TotalPages ELSE old.TotalPages,
          IF 6 \in W THEN new.ContentType ELSE old.ContentType,
          IF 7 \in W THEN new.PageTypes ELSE old.PageTypes,
          IF 8 \in W THEN new.PageMeta ELSE old.PageMeta,
          IF 9 \in W THEN new.SourceType ELSE old.SourceType)

\* The Blocks a copy of new over old can show while it runs, and when it is
\* done.
TornBlocks(old, new) ==
  {CopiedFields(old, new, 1..k) : k \in 0..9}
    \cup {CopiedFields(old, new, k..9) : k \in 1..9}

\* watchFile's state when it started (lines 30-32) on the blocks Parse
\* returned, and after the lines msgs[i], msgs[i + 1], ... .
WatchStartOf(p) ==
  WatchState(p.blocks, NewBlockIndex(p.blocks), p.turns, ClosedTurn, Len(p.blocks), -1, 0)

RECURSIVE WatchReplay(_, _, _, _)
WatchReplay(st, f, msgs, i) ==
  IF i > Len(msgs) THEN st
  ELSE WatchReplay(WatchLine(st, f, msgs[i]), f, msgs, i + 1)

\* index.blocks before the line dispatched last.
BlocksBeforeLine ==
  WatchReplay(WatchStartOf(JSONLParse(jlines, filters)), filters,
              SubSeq(appended, 1, Len(appended) - 1), 1).blocks

\* What the place watchFile wrote last held before.
PlaceBefore(before, pos) == IF pos < Len(before) THEN before[pos + 1] ELSE ZeroBlock

\* What a key handler can read of index.blocks[pos].  The state with wpc =
\* "index" stands for the time from the start of watchFile's write of
\* index.blocks[currentBlockIdx] to its write of the name map.
BlockReads(pos) ==
  IF pc = "follow" /\ wpc = "index" /\ pos = currentBlockIdx
  THEN TornBlocks(PlaceBefore(BlocksBeforeLine, pos), blocks[pos + 1])
  ELSE {blocks[pos + 1]}

\* The key handlers of runFollowMode, 283-328: the command, then
\* navigator.currentPage = 0 and the page written to the view; nothing is
\* written when GetCurrentBlock is nil.
KeyMovesTo(pos) ==
  /\ currentPos' = pos
  /\ currentPage' = 0
  /\ IF GetBlockByPosition(blocks, pos) >= 0
     THEN display' \in {TranslateANSI(FormatBlockPage(block, 0, terminalWidth,
                                                       BorderNone)) :
                           block \in BlockReads(pos)}
     ELSE display' = display

\* 'j' and the right arrow
KeyNext ==
  /\ pc \in {"following", "follow", "generic"}
  /\ KeyMovesTo(handleNext(blocks, currentPos))
  /\ UNCHANGED <<pc, textVars, blocks, nameIndex, queued, query, found, jsonlVars,
                 cliVars, serverVars, readVars, reloadVars, contentTypes, terminalWidth>>

\* 'J' and the left arrow
KeyPrev ==
  /\ pc \in {"following", "follow", "generic"}
  /\ KeyMovesTo(handlePrev(blocks, currentPos))
  /\ UNCHANGED <<pc, textVars, blocks, nameIndex, queued, query, found, jsonlVars,
                 cliVars, serverVars, readVars, reloadVars, contentTypes, terminalWidth>>

-----------------------------------------------------------------------------
(* SpecFollow: JSONL follow mode.  Init is the state runFollowMode hands   *)
(* to watchFile: the file's blocks as Parse returned them (follow mode     *)
(* stops when there are none), their index, the view on the last block,    *)
(* and watchFile's locals as lines 30-32 set them.  jlines is the file as  *)
(* first read, appended the complete lines dispatched since.               *)

MaxFollowLines == 3

\* ScanContentTypes and showContentSelector (parser_jsonl.go 28-102, part_003
\* 163-230), which runFollowMode calls for the filters of a transcript.
TypeOrder == <<"user", "assistant", "diff", "tool_result", "system", "other">>
TypeDefaults == {"user", "assistant", "diff"}

\* A user line with a text item followed by a tool_result item, one whose
\* tool_result item comes first, one without message.content, one with an
\* empty content array, and a line of another type.
UserMixed    == Msg("json", "user",
                    ArrayContent(<<Item("text", TextHi, <<>>),
                                   Item("tool_result", <<>>, TextOut)>>),
                    NoToolUseResult)
ToolThenText == Msg("json", "user",
                    ArrayContent(<<Item("tool_result", <<>>, TextOut),
                                   Item("text", TextBye, <<>>)>>),
                    NoToolUseResult)
UserNoContent  == Msg("json", "user", NoContent, NoToolUseResult)
UserEmptyArray == Msg("json", "user", ArrayContent(<<>>), NoToolUseResult)
SummaryLine    == Msg("json", "summary", NoContent, NoToolUseResult)
BlankLine      == Msg("blank", "", NoContent, NoToolUseResult)

ScanTranscript ==
  {UserHi, UserBye, AssistantReply, ToolPatch, ToolBash, SystemLine, InvalidLine,
   UserMixed, ToolThenText, UserNoContent, UserEmptyArray, SummaryLine, BlankLine}

NoCounts == [n \in {TypeOrder[i] : i \in 1..Len(TypeOrder)} |-> 0]

RECURSIVE CountAll(_, _)
CountAll(counts, names) ==
  IF Len(names) = 0 THEN counts
  ELSE CountAll([counts EXCEPT ![names[1]] = @ + 1], Tail(names))

\* The tool_result test as isToolResultMessage makes it: any item.
ScanUserAnyItem(msg) ==
  IF msg.content.kind = "string" THEN <<"user">>
  ELSE IF msg.content.kind = "array" /\ Len(msg.content.items) > 0
  THEN IF \E i \in 1..Len(msg.content.items) : msg.content.items[i].type = "tool_result"
       THEN <<"tool_result">> \o (IF hasStructuredPatch(msg) THEN <<"diff">> ELSE <<>>)
       ELSE <<"user">>
  ELSE <<>>

\* ScanContentTypes, lines 50-75: the categories counted for a user line.
\* A string content counts as user; for an array the first item decides
\* (both branches of the loop break); no content, or an empty array,
\* counts nothing.
ScanUser(msg) ==
  IF msg.content.kind = "string" THEN <<"user">>
  ELSE IF msg.content.kind = "array" /\ Len(msg.content.items) > 0
  THEN IF msg.content.items[1].type = "tool_result"
       THEN <<"tool_result">> \o (IF hasStructuredPatch(msg) THEN <<"diff">> ELSE <<>>)
       ELSE <<"user">>
  ELSE <<>>

\* ScanContentTypes, lines 32-83: the categories counted for one line.
ScanLine(msg) ==
  IF msg.raw # "json" \/ msg.type = "" THEN <<>>
  ELSE IF msg.type = "user" THEN ScanUser(msg)
  ELSE IF msg.type = "assistant" THEN <<"assistant">>
  ELSE IF msg.type = "system" THEN <<"system">>
  ELSE <<"other">>

RECURSIVE ScanCounts(_, _, _)
ScanCounts(lines, i, counts) ==
  IF i > Len(lines) THEN counts
  ELSE ScanCounts(lines, i + 1, CountAll(counts, ScanLine(lines[i])))

\* ScanContentTypes, lines 86-101: the categories found, in the fixed order.
RECURSIVE BuildTypes(_, _)
BuildTypes(counts, i) ==
  IF i > Len(TypeOrder) THEN <<>>
  ELSE (IF counts[TypeOrder[i]] > 0
        THEN << [Name |-> TypeOrder[i], Count |-> counts[TypeOrder[i]],
                 Enabled |-> TypeOrder[i] \in TypeDefaults] >>
        ELSE <<>>) \o BuildTypes(counts, i + 1)

ScanContentTypes(lines) == BuildTypes(ScanCounts(lines, 1, NoCounts), 1)

\* showContentSelector, lines 223-226: filters[ct.Name] = ct.Enabled; a
\* name absent from the map reads as false.
EnabledIn(ts, name) == \E i \in 1..Len(ts) : ts[i].Name = name /\ ts[i].Enabled

FiltersOf(ts) ==
  IF Len(ts) = 0
  THEN [set |-> TRUE, user |-> TRUE, assistant |-> TRUE, diff |-> FALSE,
        tool_result |-> FALSE]
  ELSE [set |-> TRUE, user |-> EnabledIn(ts, "user"),
        assistant |-> EnabledIn(ts, "assistant"), diff |-> EnabledIn(ts, "diff"),
        tool_result |-> EnabledIn(ts, "tool_result")]

\* showContentSelector, lines 187-202: what the toggles typed before the
\* empty line can make of the scanned types (any entry switched any way).
SelectorOutcomes(ts) ==
  {[i \in 1..Len(ts) |-> [ts[i] EXCEPT !.Enabled = e[i]]] :
     e \in [1..Len(ts) -> BOOLEAN]}

InitialTranscripts ==
  {<<UserHi>>, <<UserHi, AssistantReply>>, <<UserBye, UserEmpty>>,
   <<UserEmpty, UserHi>>, <<UserHi, AssistantReply, ToolPatch, ToolBash>>}

\* runFollowMode 194-238 and watchFile 30: the filters are what the selector
\* returned for the file; then what Parse returned, its index,
\* the view on the last block, and the turn counter.
FollowStartsWith(st) ==
  /\ Len(st.blocks) > 0
  /\ blocks = st.blocks
  /\ turns = st.turns
  /\ nameIndex = NewBlockIndex(st.blocks)
  /\ currentPos = Len(st.blocks) - 1
  /\ currentPage = st.blocks[Len(st.blocks)].TotalPages - 1
  /\ display = TranslateANSI(FormatBlockPage(st.blocks[Len(st.blocks)],
                                             st.blocks[Len(st.blocks)].TotalPages - 1,
                                             terminalWidth, BorderNone))
  /\ turnNumber = Len(st.blocks)

InitFollow ==
  /\ pc = "follow" /\ wpc = "line"
  /\ terminalWidth = detectTerminalWidth(NoEnvironment)
  /\ jlines \in InitialTranscripts
  /\ \E ts \in SelectorOutcomes(ScanContentTypes(jlines)) :
       /\ filters = FiltersOf(ts)
       /\ FollowStartsWith(JSONLParse(jlines, FiltersOf(ts)))
  /\ currentTurn = ClosedTurn /\ currentBlockIdx = -1
  /\ lineNum = 0 /\ appended = <<>> /\ queued = 0
  /\ query = <<>> /\ found = -1
  /\ TextIdle /\ CliIdle /\ ReadIdle /\ ReloadIdle
  /\ mu = <<>> /\ currentHTML = <<>> /\ fileModTime = 0 /\ lastModTime = 0
  /\ rendered = <<>> /\ hpc = <<>> /\ page = <<>>
  /\ clients = {} /\ ch = <<>> /\ epc = <<>>
  /\ contentTypes = <<>>

\* watchFile runs in a goroutine of its own (go watchFile, line 257) and
\* writes index.blocks and index.nameIndex without a lock, while the key
\* handlers and the queued updates read them on the UI thread.  Each write
\* of the watcher to the index is therefore a step of its own, between
\* which the UI thread may run: wpc is "line" before the next line is
\* taken, "index" after index.blocks was written (lines 44, 140-141) and
\* "notify" after index.nameIndex was written (lines 45, 142).  A key
\* handled while index.blocks is being written is a key handled at "index"
\* that reads the place as the unfinished write shows it (BlockReads).

\* watchFile's locals and index.blocks take the values of st; the write of
\* the name map and onNewBlock follow when the line wrote a Block.
WatchStateBecomes(st) ==
  /\ blocks' = st.blocks /\ turns' = st.turns
  /\ currentTurn' = st.currentTurn /\ turnNumber' = st.turnNumber
  /\ currentBlockIdx' = st.currentBlockIdx
  /\ wpc' = IF st.notified > 0 THEN "index" ELSE "line"

\* watchFile dispatches the next complete line of the file, up to its write
\* of index.blocks; it is inside onNewBlock, whose app.QueueUpdateDraw
\* returns after the UI thread has run the update, while an update is
\* queued.
Dispatch ==
  /\ pc = "follow" /\ wpc = "line" /\ Len(appended) < MaxFollowLines
  /\ queued = 0
  /\ \E msg \in Transcript :
       /\ WatchStateBecomes(WatchLine(WatchState(blocks, nameIndex, turns, currentTurn,
                                                 turnNumber, currentBlockIdx, 0),
                                      filters, msg))
       /\ appended' = Append(appended, msg)
  /\ UNCHANGED <<cliVars, serverRest, readVars, reloadVars, viewVars, pc, textVars,
                 nameIndex, currentPos, currentPage, queued, query, found, jlines,
                 filters, lineNum>>

\* Lines 45 and 142: the watcher enters the Block it wrote in the name map.
WriteNameIndex ==
  /\ pc = "follow" /\ wpc = "index"
  /\ nameIndex' = IndexName(nameIndex, blocks[currentBlockIdx + 1], currentBlockIdx)
  /\ wpc' = "notify"
  /\ UNCHANGED <<cliVars, serverRest, readVars, reloadVars, viewVars, pc, textVars,
                 blocks, currentPos, currentPage, queued, query, found, jsonlVars>>

\* Lines 46 and 143: onNewBlock queues the update for the UI thread.
QueueUpdate ==
  /\ pc = "follow" /\ wpc = "notify"
  /\ queued' = queued + 1
  /\ wpc' = "line"
  /\ UNCHANGED <<cliVars, serverRest, readVars, reloadVars, viewVars, pc, textVars,
                 blocks, nameIndex, currentPos, currentPage, query, found, jsonlVars>>

\* The UI thread runs one queued onNewBlock update (runFollowMode 243-253).
DrawUpdate ==
  /\ pc = "follow" /\ queued > 0
  /\ queued' = queued - 1
  /\ currentPos' = Len(blocks) - 1
  /\ currentPage' = IF GetBlockByPosition(blocks, Len(blocks) - 1) >= 0
                    THEN blocks[Len(blocks)].TotalPages - 1 ELSE currentPage
  /\ ShowsCurrent(blocks, Len(blocks) - 1,
                  IF GetBlockByPosition(blocks, Len(blocks) - 1) >= 0
                  THEN blocks[Len(blocks)].TotalPages - 1 ELSE currentPage)
  /\ UNCHANGED <<cliVars, serverVars, readVars, reloadVars, contentTypes, terminalWidth, pc,
                 textVars, blocks, nameIndex, query, found, jsonlVars>>

NextFollow ==
  Dispatch \/ WriteNameIndex \/ QueueUpdate \/ DrawUpdate \/ KeyNext \/ KeyPrev

SpecFollow == InitFollow /\ [][NextFollow]_vars

\* C3: a dispatched line lengthens the block sequence by one when it is a
\* genuine user line with non-empty text and the user filter is on, and
\* leaves the length alone otherwise; the only Block that may differ
\* afterwards is the open turn's, rewritten in place by an assistant or
\* tool-result line that added a part, and nothing else changes the blocks.
C3_FollowGrowsByUserLines ==
  [][IF appended' # appended
     THEN LET msg == appended'[Len(appended')]
              grows == /\ GenuineUserLine(msg) /\ ExtractUserContent(msg) # <<>>
                       /\ filters.user
          IN  /\ Len(blocks') = Len(blocks) + (IF grows THEN 1 ELSE 0)
              /\ \A i \in 1..Len(blocks) :
                   blocks'[i] # blocks[i] =>
                     /\ ~grows
                     /\ currentTurn.open /\ i = currentBlockIdx + 1
                     /\ currentBlockIdx' = currentBlockIdx
                     /\ HasToolResultItem(msg) \/ msg.type = "assistant"
                     /\ Len(currentTurn'.Parts) > Len(currentTurn.Parts)
                     /\ blocks'[i].Name = blocks[i].Name
                     /\ HasPrefix(blocks'[i].Content, blocks[i].Content)
     ELSE blocks' = blocks]_vars

C3_Witness ==
  /\ pc = "follow" /\ Len(appended) >= 3
  /\ appended[Len(appended)] = AssistantReply
  /\ appended[Len(appended) - 2] = UserBye
  /\ currentTurn.open /\ Len(currentTurn.Parts) >= 3
  /\ currentBlockIdx = Len(blocks) - 1
  /\ blocks[currentBlockIdx + 1] = CreateTurnBlock(currentTurn, turnNumber)
  /\ Len(blocks) >= 2


-----------------------------------------------------------------------------
(* SpecIndex: an index is built over a bounded block sequence whose names  *)
(* repeat (also up to letter case) and contain one another, and then       *)
(* queried.  query holds the argument of the last lookup, found its result.*)

MaxBlocks == 3

NameIntro      == <<"I", "n", "t", "r", "o">>
NameIntroLower == <<"i", "n", "t", "r", "o">>
NameSetup      == <<"S", "e", "t", "u", "p">>
NameSet        == <<"S", "e", "t">>

BlockNames == {NameIntro, NameIntroLower, NameSetup, NameSet}

Queries ==
  {<<"i", "n", "t", "r", "o">>, <<" ", "I", "N", "T", "R", "O", " ">>,
   <<"s", "e", "t">>, <<"S", "E", "T", "U", "P">>, <<"t">>, <<"u", "p">>,
   <<"z", "z">>, <<>>}

\* A plain block called name: of two pages when the name is Setup, of one
\* page otherwise.
NamedBlock(name) ==
  IF name = NameSetup
  THEN MkBlock(name, <<>>, 0, << <<"a">>, <<"b">> >>, 2, BlockContentPlain, <<>>, <<>>,
               SourceMarkdown)
  ELSE MkBlock(name, <<>>, 0, << <<>> >>, 1, BlockContentPlain, <<>>, <<>>, SourceMarkdown)

InitIndex ==
  /\ pc = "blocks"
  /\ \E names \in SeqUpTo(BlockNames, MaxBlocks) :
       blocks = [i \in 1..Len(names) |-> NamedBlock(names[i])]
  /\ IndexIdle /\ TextIdle /\ JsonlIdle /\ ExtraIdle

\* index = NewBlockIndex(blocks)
BuildIndex ==
  /\ pc = "blocks"
  /\ nameIndex' = NewBlockIndex(blocks)
  /\ pc' = "indexed"
  /\ UNCHANGED <<extraVars, textVars, jsonlVars, blocks, currentPos, currentPage, queued,
                 query, found>>

\* index.FindBlock(q)
Find ==
  /\ pc # "blocks"
  /\ \E q \in Queries :
       /\ query' = q
       /\ found' = FindBlock(blocks, nameIndex, q)
  /\ pc' = "found"
  /\ UNCHANGED <<extraVars, textVars, jsonlVars, blocks, nameIndex, currentPos, currentPage,
                 queued>>

\* index.NextBlock(name)
LookupNext ==
  /\ pc # "blocks"
  /\ \E name \in BlockNames :
       /\ query' = name
       /\ found' = NextBlock(blocks, nameIndex, name)
  /\ pc' = "next"
  /\ UNCHANGED <<extraVars, textVars, jsonlVars, blocks, nameIndex, currentPos, currentPage,
                 queued>>

\* index.PrevBlock(name)
LookupPrev ==
  /\ pc # "blocks"
  /\ \E name \in BlockNames :
       /\ query' = name
       /\ found' = PrevBlock(blocks, nameIndex, name)
  /\ pc' = "prev"
  /\ UNCHANGED <<extraVars, textVars, jsonlVars, blocks, nameIndex, currentPos, currentPage,
                 queued>>

\* handleJump, lines 409-416: the position moves to the entry the name map
\* holds for the found block's name.  (The history it saves is not read by
\* any modelled code.)
JumpTo(q, p) ==
  /\ query' = q
  /\ found' = p
  /\ currentPos' = IF p >= 0 /\ ToLower(blocks[p + 1].Name) \in DOMAIN nameIndex
                   THEN nameIndex[ToLower(blocks[p + 1].Name)] ELSE currentPos
  /\ currentPage' = IF p >= 0 /\ ToLower(blocks[p + 1].Name) \in DOMAIN nameIndex
                    THEN 0 ELSE currentPage

\* Navigator.handleJump(q): an empty query finds nothing.
Jump ==
  /\ pc # "blocks"
  /\ \E q \in Queries :
       JumpTo(q, IF q = <<>> THEN -1 ELSE FindBlock(blocks, nameIndex, q))
  /\ pc' = "jumped"
  /\ UNCHANGED <<extraVars, textVars, jsonlVars, blocks, nameIndex, queued>>

\* ExecuteCommand moved the position to p (handleNext, handlePrev): the
\* page is reset and the block at p returned; without a move nil is returned.
MovesTo(p) ==
  /\ query' = <<>>
  /\ found' = IF p # currentPos THEN GetBlockByPosition(blocks, p) ELSE -1
  /\ currentPos' = p
  /\ currentPage' = IF p # currentPos THEN 0 ELSE currentPage

\* Navigator.ExecuteCommand(&Command{Action: "next"})
ExecuteNext ==
  /\ pc # "blocks"
  /\ MovesTo(handleNext(blocks, currentPos))
  /\ pc' = "moved"
  /\ UNCHANGED <<extraVars, textVars, jsonlVars, blocks, nameIndex, queued>>

\* Navigator.ExecuteCommand(&Command{Action: "prev"})
ExecutePrev ==
  /\ pc # "blocks"
  /\ MovesTo(handlePrev(blocks, currentPos))
  /\ pc' = "moved"
  /\ UNCHANGED <<extraVars, textVars, jsonlVars, blocks, nameIndex, queued>>

\* Navigator.NextPage
NextPage ==
  /\ pc # "blocks"
  /\ currentPage' = IF GetBlockByPosition(blocks, currentPos) < 0 THEN currentPage
                    ELSE IF currentPage + 1 >= blocks[currentPos + 1].TotalPages
                    THEN currentPage
                    ELSE currentPage + 1
  /\ pc' = "paged"
  /\ UNCHANGED <<extraVars, textVars, jsonlVars, blocks, nameIndex, currentPos, queued,
                 query, found>>

\* Navigator.PrevPage
PrevPage ==
  /\ pc # "blocks"
  /\ currentPage' = IF currentPage <= 0 THEN currentPage ELSE currentPage - 1
  /\ pc' = "paged"
  /\ UNCHANGED <<extraVars, textVars, jsonlVars, blocks, nameIndex, currentPos, queued,
                 query, found>>

NextIndex ==
  \/ BuildIndex \/ Find \/ LookupNext \/ LookupPrev \/ Jump
  \/ ExecuteNext \/ ExecutePrev \/ NextPage \/ PrevPage

SpecIndex == InitIndex /\ [][NextIndex]_vars

\* The same letters, ignoring case, one by one.
SameNameIgnoringCase(a, b) ==
  Len(a) = Len(b) /\ \A k \in 1..Len(a) : LowerChar(a[k]) = LowerChar(b[k])

\* The 1-based positions of the blocks called name, ignoring case.
Occurrences(name) ==
  {i \in 1..Len(blocks) : SameNameIgnoringCase(blocks[i].Name, name)}

FirstOccurrence(name) == CHOOSE i \in Occurrences(name) : \A j \in Occurrences(name) : i <= j
LastOccurrence(name)  == CHOOSE i \in Occurrences(name) : \A j \in Occurrences(name) : i >= j

Trimmed(q) ==
  IF \A k \in 1..Len(q) : q[k] \in WhiteSpace THEN <<>>
  ELSE LET a == CHOOSE k \in 1..Len(q) :
                  q[k] \notin WhiteSpace /\ \A j \in 1..(k - 1) : q[j] \in WhiteSpace
           b == CHOOSE k \in 1..Len(q) :
                  q[k] \notin WhiteSpace /\ \A j \in (k + 1)..Len(q) : q[j] \in WhiteSpace
       IN  SubSeq(q, a, b)

\* What the name map and the three lookups give when a repeated name stands
\* for the occurrence picked by Pick.
ResolvesTo(Pick(_)) ==
  /\ pc # "blocks" =>
       \A i \in 1..Len(blocks) :
         /\ ToLower(blocks[i].Name) \in DOMAIN nameIndex
         /\ nameIndex[ToLower(blocks[i].Name)] = Pick(blocks[i].Name) - 1
  /\ (pc = "found" /\ Occurrences(Trimmed(query)) # {}) =>
       found = Pick(Trimmed(query)) - 1
  /\ (pc = "next" /\ Occurrences(query) # {}) =>
       found = IF Pick(query) < Len(blocks) THEN Pick(query) ELSE -1
  /\ (pc = "prev" /\ Occurrences(query) # {}) =>
       found = IF Pick(query) > 1 THEN Pick(query) - 2 ELSE -1

\* C4 as stated: a name that several Blocks share ignoring case is mapped
\* to the FIRST of them, and exact-match FindBlock, NextBlock and PrevBlock
\* resolve it to that first occurrence.
C4_FirstOccurrenceWins == ResolvesTo(FirstOccurrence)

\* What NewBlockIndex does instead: a name that several Blocks share
\* ignoring case is mapped to the LAST of them (each later duplicate
\* overwrites the entry), and exact-match FindBlock, NextBlock and PrevBlock
\* resolve it to that last occurrence.
C4_LastOccurrenceWins == ResolvesTo(LastOccurrence)

\* Reached: NextBlock on a name of the first two of three Blocks, which
\* the map resolves to the second.
C4_Witness ==
  /\ pc = "next" /\ Len(blocks) = 3
  /\ SameNameIgnoringCase(blocks[1].Name, blocks[2].Name)
  /\ blocks[1].Name # blocks[2].Name
  /\ query = blocks[1].Name
  /\ nameIndex[ToLower(query)] = 1
  /\ found = 2

IsSubstring(p, s) ==
  \E a \in 0..(Len(s) - Len(p)) : SubSeq(s, a + 1, a + Len(p)) = p

Containing(q) == {i \in 1..Len(blocks) : IsSubstring(q, ToLower(blocks[i].Name))}

\* C5: FindBlock(query) returns a Block whose lowercased name equals the
\* trimmed, lowercased query when there is one; otherwise the lowest-index
\* Block whose lowercased name contains it; otherwise none.
C5_FindExactThenSubstring ==
  pc = "found" =>
    LET q == ToLower(Trimmed(query)) IN
      IF Occurrences(q) # {}
      THEN found >= 0 /\ ToLower(blocks[found + 1].Name) = q
      ELSE IF Containing(q) # {}
      THEN found + 1 \in Containing(q) /\ \A j \in Containing(q) : found + 1 <= j
      ELSE found = -1

C5_Witness ==
  /\ pc = "found" /\ Len(blocks) = 3
  /\ query = <<"u", "p">>
  /\ blocks[1].Name = NameSet
  /\ blocks[2].Name = NameSetup /\ blocks[3].Name = NameSetup
  /\ found = 1


-----------------------------------------------------------------------------
(* Spec: every producer of Blocks.  A run starts from one input: a text    *)
(* file (pc "text") handed to the markdown, diff or text parser, a decoded *)
(* todo file (pc "todo"), one transcript line for ParseSingleLine (pc      *)
(* "line"), or a transcript (pc "parse") that JSONLParser.Parse reads and  *)
(* follow mode then extends.                                               *)

MaxTextLines == 3

LHeader1  == <<"#", " ", "A">>
LHeader2  == <<"#", "#", " ", "B">>
LText     == <<"t">>
LShell    == <<"s", "h", "e", "l", "l">>
LCommand  == <<"$", " ", "l", "s", " ", "(", "1", ")">>
LHeader3  == <<"#", "#", "#", " ", "C">>
LHeaderNoText == <<"#", " ">>

TextVocabulary ==
  {LHeader1, LHeader2, LHeader3, LHeaderNoText, LText, LEmpty, LShell, LCommand,
   LHunk, LAdded}

\* A file of more lines than the 10 of ParseContinuous' smallest page.
LongText ==
  Join(<<LHeader1, LHeader2>> \o [i \in 1..11 |-> LText], <<NL>>)

TextInputs ==
  {Join(ls, <<NL>>) : ls \in SeqUpTo(TextVocabulary, MaxTextLines)} \cup {LongText}

TermHeights == {0, 24, 80}

\* The contents of todo files.
TodoTexts ==
  {<<"n", "o", "t", " ", "j", "s", "o", "n">>,
   <<"n", "u", "l", "l">>,
   <<"[", "]">>,
   <<"[", "{", "\"", "c", "o", "n", "t", "e", "n", "t", "\"", ":", "\"", "a", "\"", ",", "\"", "s", "t", "a", "t", "u", "s", "\"", ":", "\"", "p", "e", "n", "d", "i", "n", "g", "\"", "}", "]">>,
   <<"[", "{", "\"", "c", "o", "n", "t", "e", "n", "t", "\"", ":", "\"", "a", "\"", ",", "\"", "s", "t", "a", "t", "u", "s", "\"", ":", "\"", "c", "o", "m", "p", "l", "e", "t", "e", "d", "\"", "}", ",", " ", "{", "\"", "C", "o", "n", "t", "e", "n", "t", "\"", ":", "\"", "b", "\"", ",", "\"", "s", "t", "a", "t", "u", "s", "\"", ":", "\"", "i", "n", "_", "p", "r", "o", "g", "r", "e", "s", "s", "\"", "}", ",", " ", "n", "u", "l", "l", "]">>,
   <<"[", "{", "\"", "c", "o", "n", "t", "e", "n", "t", "\"", ":", "\"", "c", "\"", ",", "\"", "s", "t", "a", "t", "u", "s", "\"", ":", "1", "}", "]">>,
   <<"{", "\"", "c", "o", "n", "t", "e", "n", "t", "\"", ":", "\"", "c", "\"", "}">>}

TodoInputs == {DecodeTodos(text) : text \in TodoTexts}

\* Transcript files: those follow mode can start on, and two without any
\* genuine user line.
FileTranscripts ==
  InitialTranscripts \cup {<<AssistantReply>>, <<SystemLine, InvalidLine>>}

FollowFilters == {NoFilters, [DefaultFilters EXCEPT !.tool_result = TRUE]}

Init ==
  /\ blocks = <<>> /\ IndexIdle /\ ExtraIdle
  /\ ctype = NoType /\ hunks = <<>>
  /\ lineNum = 0 /\ currentTurn = ClosedTurn /\ currentBlockIdx = -1
  /\ turns = <<>> /\ appended = <<>>
  /\ \/ /\ pc = "text" /\ content \in TextInputs /\ todos = NoTodos
        /\ jlines = <<>> /\ filters = NoFilters /\ turnNumber = 0
     \/ /\ pc = "todo" /\ todos \in TodoInputs /\ content = <<>>
        /\ jlines = <<>> /\ filters = NoFilters /\ turnNumber = 0
     \/ /\ pc = "line" /\ content = <<>> /\ todos = NoTodos
        /\ \E msg \in Transcript : jlines = <<msg>>
        /\ filters \in FilterSettings /\ turnNumber \in {1, 12}
     \/ /\ pc = "parse" /\ content = <<>> /\ todos = NoTodos
        /\ jlines \in FileTranscripts /\ filters \in FollowFilters
        /\ turnNumber = 0

\* (&MarkdownParser{}).Parse(content)
MarkdownParse ==
  /\ pc = "text"
  /\ blocks' = MarkdownParserParse(content)
  /\ pc' = "markdown"
  /\ UNCHANGED <<extraVars, textVars, indexVars, jsonlVars>>

\* (&MarkdownParser{}).ParseContinuous(content, termHeight)
ContinuousParse ==
  /\ pc = "text"
  /\ \E termHeight \in TermHeights : blocks' = ParseContinuous(content, termHeight)
  /\ pc' = "continuous"
  /\ UNCHANGED <<extraVars, textVars, indexVars, jsonlVars>>

\* (&TxtParser{}).Parse(content)
TxtParse ==
  /\ pc = "text"
  /\ blocks' = TxtParserParse(content)
  /\ pc' = "txt"
  /\ UNCHANGED <<extraVars, textVars, indexVars, jsonlVars>>

\* (&TodoParser{}).Parse(content)
TodoParse ==
  /\ pc = "todo"
  /\ blocks' = TodoParserParse(todos)
  /\ pc' = "todos"
  /\ UNCHANGED <<extraVars, textVars, indexVars, jsonlVars>>

\* jsonlParser.ParseSingleLine(line, turnNumber)
SingleLineParse ==
  /\ pc = "line"
  /\ filters' = EffectiveFilters(filters)
  /\ blocks' = ParseSingleLine(jlines[1], turnNumber, EffectiveFilters(filters))
  /\ pc' = "single"
  /\ UNCHANGED <<extraVars, textVars, indexVars, jlines, lineNum, currentTurn, turnNumber,
                 currentBlockIdx, turns, appended>>

\* runFollowMode 215-238 and watchFile 30-32: with blocks to show, the
\* index is built, the view put on the last block and the watcher started.
StartFollow ==
  /\ pc = "done" /\ Len(blocks) > 0
  /\ terminalWidth' = detectTerminalWidth(NoEnvironment)
  /\ nameIndex' = NewBlockIndex(blocks)
  /\ currentPos' = Len(blocks) - 1
  /\ currentPage' = blocks[Len(blocks)].TotalPages - 1
  /\ display' = TranslateANSI(FormatBlockPage(blocks[Len(blocks)],
                                              blocks[Len(blocks)].TotalPages - 1,
                                              detectTerminalWidth(NoEnvironment),
                                              BorderNone))
  /\ turnNumber' = Len(blocks)
  /\ currentTurn' = ClosedTurn /\ currentBlockIdx' = -1
  /\ pc' = "follow" /\ wpc' = "line"
  /\ UNCHANGED <<cliVars, serverRest, readVars, reloadVars, contentTypes, textVars,
                 blocks, queued, query, found, jlines, filters, lineNum, turns,
                 appended>>

Next ==
  \/ MarkdownParse \/ ContinuousParse \/ DiffParse \/ TxtParse \/ TodoParse
  \/ SingleLineParse
  \/ ParseEnter \/ ParseLoopStep \/ ParseReturn
  \/ StartFollow \/ Dispatch \/ WriteNameIndex \/ QueueUpdate \/ DrawUpdate

Spec == Init /\ [][Next]_vars

\* C1: every Block any parser returns, and every Block follow mode appends
\* or rewrites, has TotalPages = len(Pages) >= 1; a block whose line list
\* is empty gets exactly one page, the empty string.
C1_PageCountMatchesPages ==
  /\ \A i \in 1..Len(blocks) :
       /\ blocks[i].TotalPages = Len(blocks[i].Pages)
       /\ blocks[i].TotalPages >= 1
  /\ pc \in {"markdown", "continuous", "txt", "single"} =>
       \A i \in 1..Len(blocks) :
         blocks[i].Content = <<>> => blocks[i].Pages = << <<>> >>

C1_Witness ==
  /\ pc = "continuous" /\ content = LongText
  /\ Len(blocks) = 1
  /\ blocks[1].TotalPages = 2 /\ Len(blocks[1].Pages) = 2

-----------------------------------------------------------------------------
(* MarkdownParser.Parse, block-cut mode.                                   *)

\* A line that begins with "# " or "## ".
BeginsBlock(line) ==
  HasPrefix(line, <<"#", " ">>) \/ HasPrefix(line, <<"#", "#", " ">>)

HeadingLines(lines) == {i \in 1..Len(lines) : BeginsBlock(lines[i])}

KthHeading(lines, k) ==
  CHOOSE i \in HeadingLines(lines) :
    Cardinality({j \in HeadingLines(lines) : j <= i}) = k

\* The text of a heading line after its marker, trimmed.
HeadingName(line) ==
  TrimSpace(IF HasPrefix(line, <<"#", " ">>) THEN SubSeq(line, 3, Len(line))
            ELSE SubSeq(line, 4, Len(line)))

\* The lines after heading line i up to the next heading line or the end.
SectionEnd(lines, i) ==
  LeastOr({j \in HeadingLines(lines) : j > i}, Len(lines) + 1) - 1

SectionBody(lines, i) ==
  StripTrailingEmpty(SubSeq(lines, i + 1, SectionEnd(lines, i)))

\* C11: MarkdownParser.Parse returns one Block per line that begins with
\* "# " or "## ", in document order, named with the heading's trimmed text
\* and holding the lines up to the next such heading, trailing empty lines
\* trimmed; no other line starts a Block and lines before the first
\* heading are in no Block.
C11_BlockPerHeading ==
  pc = "markdown" =>
    LET lines == Split(content, NL) IN
      /\ Len(blocks) = Cardinality(HeadingLines(lines))
      /\ \A k \in 1..Len(blocks) :
           /\ blocks[k].Name = HeadingName(lines[KthHeading(lines, k)])
           /\ blocks[k].LineNum = KthHeading(lines, k) - 1
           /\ blocks[k].Content =
                Join(SectionBody(lines, KthHeading(lines, k)), <<NL>>)

-----------------------------------------------------------------------------
(* TxtParser.Parse on content without block markers.                       *)

NonBlankLines(lines) == {i \in 1..Len(lines) : TrimSpace(lines[i]) # <<>>}

HasMarker(lines) ==
  \E i \in 1..Len(lines) :
    \/ TrimSpace(lines[i]) = <<"s", "h", "e", "l", "l">>
    \/ HasPrefix(lines[i], <<"$", " ">>)

\* C12: for content with a non-blank line, no line that trims to "shell"
\* and no line starting with "$ ", TxtParser.Parse returns exactly one
\* Block, named "Output", holding every line from the first non-blank line
\* to the end of the input.
C12_OutputBlock ==
  pc = "txt" =>
    LET lines == Split(content, NL) IN
      (NonBlankLines(lines) # {} /\ ~HasMarker(lines)) =>
        /\ Len(blocks) = 1
        /\ blocks[1].Name = <<"O", "u", "t", "p", "u", "t">>
        /\ blocks[1].Content =
             Join(SubSeq(lines, LeastOr(NonBlankLines(lines), 1), Len(lines)), <<NL>>)

C12_Witness ==
  /\ pc = "txt"
  /\ content = <<NL>> \o LText \o <<NL>>
  /\ Len(blocks) = 1
  /\ blocks[1].Content = LText \o <<NL>>

-----------------------------------------------------------------------------
(* Fallback blocks: which inputs give a parser at least one Block.         *)

\* C13 as stated: for every non-empty input, DiffParser.Parse,
\* JSONLParser.Parse, TxtParser.Parse and TodoParser.Parse return at least
\* one Block.  (A decoded todo list, even an empty one, comes from a
\* non-empty file.)
C13_NonEmptyInputGivesBlock ==
  /\ (pc \in {"parsed", "txt"} /\ content # <<>>) => Len(blocks) >= 1
  /\ (pc = "done" /\ jlines # <<>>) => Len(blocks) >= 1
  /\ (pc = "todos" /\ todos.valid) => Len(blocks) >= 1

\* C13, amended: DiffParser.Parse returns a Block for every non-empty
\* input; TxtParser.Parse returns one exactly when the input has a
\* character that is not white space; JSONLParser.Parse exactly when the
\* user filter is on and some genuine user line has non-empty text;
\* TodoParser.Parse exactly when the input decodes to a non-empty list.
C13_FallbackBlocks ==
  /\ (pc = "parsed" /\ content # <<>>) => Len(blocks) >= 1
  /\ pc = "txt" => (Len(blocks) >= 1 <=> TrimSpace(content) # <<>>)
  /\ pc = "done" =>
       (Len(blocks) >= 1 <=> (filters.user /\ TurnStarts(jlines) # {}))
  /\ pc = "todos" => (Len(blocks) >= 1 <=> (todos.valid /\ Len(todos.items) > 0))

\* The text parser's fallback: a lone "shell" line opens a block that has
\* no lines and is never saved, so the whole content becomes "Output".
C13_Witness ==
  /\ pc = "txt" /\ content = LShell
  /\ Len(blocks) = 1
  /\ blocks[1].Name = OutputName /\ blocks[1].Content = LShell

-----------------------------------------------------------------------------
(* Line-based pagination.                                                  *)

\* C14: for every Block paginated by lines (MarkdownParser.Parse on
\* non-diff content, ParseContinuous, TxtParser.Parse, ParseSingleLine on
\* a user or assistant line), the Pages joined in order with a newline
\* are the Block's Content; hunk-per-page diff Blocks are exempt.
C14_PagesRebuildContent ==
  pc \in {"markdown", "continuous", "txt", "single"} =>
    \A i \in 1..Len(blocks) :
      blocks[i].ContentType # BlockContentDiff =>
        Join(blocks[i].Pages, <<NL>>) = blocks[i].Content

-----------------------------------------------------------------------------
(* SpecPatch: a structuredPatch written as unified diff text by            *)
(* extractStructuredPatch and read back by ParseHunks, as createDiffBlock  *)
(* does (parser_jsonl.go 861 and 881).                                     *)

MaxPatchHunks == 2
MaxPatchLines == 2

PContext  == <<" ", "a">>
PAdded    == <<"+", "b">>
PRemoved  == <<"-", "c">>
PRemovedDashes == <<"-", "-", "-", " ", "d">>
PAddedPluses   == <<"+", "+", "+", "e">>

PatchLines == {PContext, PAdded, PRemoved, PRemovedDashes, PAddedPluses}

\* oldStart and newStart of the k-th hunk of a generated patch.
PatchOldStart(k) == IF k = 1 THEN 0 ELSE 10 * k + 2
PatchNewStart(k) == IF k = 1 THEN 1 ELSE 10 * k + 3

CountPrefixed(ls, c) == Cardinality({i \in 1..Len(ls) : ls[i][1] = c})

GeneratedHunk(k, ls) ==
  [isMap |-> TRUE,
   oldStart |-> PatchOldStart(k),
   oldLines |-> Len(ls) - CountPrefixed(ls, "+"),
   newStart |-> PatchNewStart(k),
   newLines |-> Len(ls) - CountPrefixed(ls, "-"),
   lines |-> ls]

\* A tool result carrying n hunks whose lines alternate between odd and even.
GeneratedPatch(n, odd, even) ==
  [k \in 1..n |-> GeneratedHunk(k, IF k % 2 = 1 THEN odd ELSE even)]

PatchMsg(patch, path) ==
  Msg("json", "user", ArrayContent(<<Item("tool_result", <<>>, <<>>)>>),
      ToolUseResult(TRUE, patch, TRUE, path, FALSE, <<>>))

InitPatch ==
  /\ pc = "patch"
  /\ \E n \in 1..MaxPatchHunks, path \in {<<>>, PathF} :
       \E odd \in SeqUpTo(PatchLines, MaxPatchLines),
          even \in SeqUpTo(PatchLines, MaxPatchLines) :
         jlines = <<PatchMsg(GeneratedPatch(n, odd, even), path)>>
  /\ TextIdle /\ blocks = <<>> /\ IndexIdle /\ ExtraIdle
  /\ filters = NoFilters /\ lineNum = 0
  /\ currentTurn = ClosedTurn /\ turnNumber = 0 /\ currentBlockIdx = -1
  /\ turns = <<>> /\ appended = <<>>

\* diffContent := extractStructuredPatch(msg)
Synthesize ==
  /\ pc = "patch"
  /\ content' = extractStructuredPatch(jlines[1])
  /\ pc' = "synthesized"
  /\ UNCHANGED <<extraVars, ctype, hunks, todos, blocks, indexVars, jsonlVars>>

\* hunks := ParseHunks(diffContent)
ParseSynthesized ==
  /\ pc = "synthesized"
  /\ hunks' = ParseHunks(content)
  /\ pc' = "roundtrip"
  /\ UNCHANGED <<extraVars, content, ctype, todos, blocks, indexVars, jsonlVars>>

NextPatch == Synthesize \/ ParseSynthesized

SpecPatch == InitPatch /\ [][NextPatch]_vars

\* The DiffLine a patch line stands for: typed by its prefix, text without it.
PatchLineType(line) ==
  IF line[1] = "+" THEN DiffAdded
  ELSE IF line[1] = "-" THEN DiffRemoved ELSE DiffContext

ExpectedDiffLines(ls) ==
  [i \in 1..Len(ls) |-> [Type |-> PatchLineType(ls[i]), Content |-> Tail(ls[i])]]

\* C15: reading back a synthesized patch gives one hunk per patch hunk in
\* order, with StartOld/StartNew equal to oldStart/newStart and exactly one
\* DiffLine per patch line, typed by its prefix and carrying its text
\* without the prefix.
C15_PatchRoundTrip ==
  pc = "roundtrip" =>
    LET patch == jlines[1].tur.patch IN
      /\ Len(hunks) = Len(patch)
      /\ \A k \in 1..Len(hunks) :
           /\ hunks[k].StartOld = patch[k].oldStart
           /\ hunks[k].StartNew = patch[k].newStart
           /\ hunks[k].Lines = ExpectedDiffLines(patch[k].lines)

\* What does hold of the round trip: the hunks and their start lines.
C15_HunksAndStarts ==
  pc = "roundtrip" =>
    LET patch == jlines[1].tur.patch IN
      /\ Len(hunks) = Len(patch)
      /\ \A k \in 1..Len(hunks) :
           /\ hunks[k].StartOld = patch[k].oldStart
           /\ hunks[k].StartNew = patch[k].newStart

\* The lines of every hunk but the last, when no patch line looks like a
\* file header.
C15_InnerHunkLines ==
  pc = "roundtrip" =>
    LET patch == jlines[1].tur.patch IN
      (\A k \in 1..Len(patch) : \A i \in 1..Len(patch[k].lines) :
          patch[k].lines[i] \notin {PRemovedDashes, PAddedPluses})
      => \A k \in 1..(Len(hunks) - 1) :
           hunks[k].Lines = ExpectedDiffLines(patch[k].lines)


-----------------------------------------------------------------------------
(* SpecDetect: automatic parser selection, by file extension for a file    *)
(* (viewTextFile) and by content for piped input (viewStdinContent),       *)
(* both with no forced type.                                               *)

TodoParser     == <<"T", "o", "d", "o">>
DiffParser     == <<"D", "i", "f", "f">>
MarkdownParser == <<"M", "a", "r", "k", "d", "o", "w", "n">>
JSONLParser    == <<"J", "S", "O", "N", "L">>
TxtParser      == <<"T", "x", "t">>

ExtMd       == <<".", "m", "d">>
ExtMarkdown == <<".", "m", "a", "r", "k", "d", "o", "w", "n">>
ExtTxt      == <<".", "t", "x", "t">>
ExtLog      == <<".", "l", "o", "g">>
ExtDiff     == <<".", "d", "i", "f", "f">>
ExtPatch    == <<".", "p", "a", "t", "c", "h">>
ExtJson     == <<".", "j", "s", "o", "n">>
ExtJsonl    == <<".", "j", "s", "o", "n", "l">>

TodoParserDetect(path)     == HasSuffix(ToLower(path), ExtJson)
DiffParserDetect(path)     ==
  HasSuffix(ToLower(path), ExtDiff) \/ HasSuffix(ToLower(path), ExtPatch)
MarkdownParserDetect(path) ==
  HasSuffix(ToLower(path), ExtMd) \/ HasSuffix(ToLower(path), ExtMarkdown)
JSONLParserDetect(path)    == HasSuffix(ToLower(path), ExtJsonl)
TxtParserDetect(path)      == HasSuffix(ToLower(path), ExtTxt)

\* detectParser: the first parser of the list whose Detect accepts the path,
\* MarkdownParser when none does.
detectParser(path) ==
  IF TodoParserDetect(path) THEN TodoParser
  ELSE IF DiffParserDetect(path) THEN DiffParser
  ELSE IF MarkdownParserDetect(path) THEN MarkdownParser
  ELSE IF JSONLParserDetect(path) THEN JSONLParser
  ELSE IF TxtParserDetect(path) THEN TxtParser
  ELSE MarkdownParser

\* The loop of detectParserFromContent: it looks at the first line that is
\* not blank (position i of lines, 0 when all are blank) and stops.
SniffLineAt(lines, i) ==
  IF i # 0 /\ UnmarshalsIntoMap(TrimSpace(lines[i])) THEN JSONLParser
  ELSE MarkdownParser

SniffLines(lines) ==
  SniffLineAt(lines, LeastOr({i \in 1..Len(lines) : TrimSpace(lines[i]) # <<>>}, 0))

detectParserFromContentJSONFirst(text) ==
  IF SniffLines(Split(text, NL)) = JSONLParser THEN JSONLParser
  ELSE IF DetectBlockContentType(text) = BlockContentDiff THEN DiffParser
  ELSE MarkdownParser

detectParserFromContent(text) ==
  IF DetectBlockContentType(text) = BlockContentDiff THEN DiffParser
  ELSE SniffLines(Split(text, NL))

MaxSniffLines == 4

LJsonObject == <<"{", "\"", "k", "\"", ":", "1", "}">>
\* An object after a blank, with white space, a nested object and an
\* escaped quote inside.
LJsonNested ==
  <<" ", "{", "\"", "k", "\"", ":", " ", "{", "}", ",", " ", "\"", "m", "\"", ":", " ", "[", "\"", "a", "\\", "\"", "b", "\"", "]", "}">>
LJsonNull   == <<"n", "u", "l", "l">>
LJsonArray  == <<"[", "1", "]">>
LJsonOpen   == <<"{", "\"", "k", "\"", ":">>
\* An object with a number beyond float64.
LJsonHuge   == <<"{", "\"", "k", "\"", ":", "1", "e", "9", "9", "9", "}">>

SniffVocabulary ==
  {LJsonObject, LJsonNested, LJsonNull, LJsonArray, LJsonOpen, LJsonHuge,
   LFileOld, LHunk, LAdded, LEmpty}

SniffInputs == {Join(ls, <<NL>>) : ls \in SeqUpTo(SniffVocabulary, MaxSniffLines)}

PathStems == {<<"n">>, <<"d", ".", "t", "x", "t", "/", "N">>}
PathExts  ==
  {ExtMd, ExtMarkdown, ExtTxt, ExtLog, ExtDiff, ExtPatch, ExtJson, ExtJsonl,
   <<".", "L", "O", "G">>, <<".", "L", "o", "g">>, <<".", "T", "X", "T">>,
   <<".", "M", "D">>, <<".", "p", "n", "g">>, <<>>}
Paths == {stem \o ext : stem \in PathStems, ext \in PathExts}

InitDetect ==
  /\ pc = "cli"
  /\ \/ inputPath \in Paths /\ content = <<>>
     \/ inputPath = <<>> /\ content \in SniffInputs
  /\ parser = NoParser
  /\ ctype = NoType /\ hunks = <<>> /\ todos = NoTodos /\ blocks = <<>>
  /\ IndexIdle /\ JsonlIdle /\ ServerIdle /\ ReadIdle /\ ReloadIdle /\ ViewIdle

\* viewTextFile with no forced type: parser = detectParser(filePath)
SelectByPath ==
  /\ pc = "cli" /\ inputPath # <<>>
  /\ parser' = detectParser(inputPath)
  /\ pc' = "detected"
  /\ UNCHANGED <<serverVars, readVars, reloadVars, viewVars, inputPath, textVars, blocks, indexVars, jsonlVars>>

\* viewStdinContent with no forced type: parser = detectParserFromContent(content)
SelectByContent ==
  /\ pc = "cli" /\ inputPath = <<>>
  /\ parser' = detectParserFromContent(content)
  /\ pc' = "sniffed"
  /\ UNCHANGED <<serverVars, readVars, reloadVars, viewVars, inputPath, textVars, blocks, indexVars, jsonlVars>>

NextDetect == SelectByPath \/ SelectByContent

SpecDetect == InitDetect /\ [][NextDetect]_vars

\* The first line of the content, and its first line that is not blank.
FirstLineOf(text) == Split(text, NL)[1]

FirstNonBlankLines(text) ==
  LET lines == Split(text, NL) IN
    {TrimSpace(lines[i]) : i \in {j \in 1..Len(lines) :
        /\ TrimSpace(lines[j]) # <<>>
        /\ \A h \in 1..(j - 1) : TrimSpace(lines[h]) = <<>>}}

IsJSONObjectLine(line) ==
  HasPrefix(line, <<"{">>) /\ JSONObjectEnd(line, 1) = Len(line) + 1

\* json.Unmarshal into a map returns no error: an object whose numbers are
\* float64 numbers, or null.
DecoderAccepts(line) ==
  \/ IsJSONObjectLine(line) /\ NumbersFit(JSONDecode(line))
  \/ line = LJsonNull

\* C16: piped input is JSONL whenever its first line parses as a JSON
\* object, even if it also satisfies the diff classifier; Diff only when the
\* first line is no JSON object and the classifier accepts; else Markdown.
C16_SniffJSONFirst ==
  pc = "sniffed" =>
    parser = IF IsJSONObjectLine(FirstLineOf(content)) THEN JSONLParser
             ELSE IF isDiff(content) THEN DiffParser
             ELSE MarkdownParser

\* C16 as the code has it: Diff whenever the diff classifier accepts the
\* content, even if its first line parses as a JSON object; JSONL only when
\* the classifier rejects it and the first non-blank line, trimmed, is
\* accepted by the JSON decoder (an object, or null); else Markdown.
C16_SniffDiffFirst ==
  pc = "sniffed" =>
    /\ isDiff(content) => parser = DiffParser
    /\ ~isDiff(content) =>
         /\ parser = JSONLParser <=>
              \E line \in FirstNonBlankLines(content) : DecoderAccepts(line)
         /\ parser \in {JSONLParser, MarkdownParser}

C16_Witness ==
  /\ pc = "sniffed"
  /\ IsJSONObjectLine(FirstLineOf(content))
  /\ isDiff(content)
  /\ parser = DiffParser

C16_WitnessJSONL ==
  /\ pc = "sniffed"
  /\ FirstLineOf(content) = <<>>
  /\ parser = JSONLParser

\* C18: a path ending in .log, in any letter case, is given to TxtParser.
C18_LogIsPlainText ==
  pc = "detected" =>
    (HasSuffix(ToLower(inputPath), ExtLog) => parser = TxtParser)

\* What detectParser does with the other extensions of the formats table.
C18_OtherExtensions ==
  pc = "detected" =>
    /\ HasSuffix(ToLower(inputPath), ExtTxt) => parser = TxtParser
    /\ HasSuffix(ToLower(inputPath), ExtMd) => parser = MarkdownParser
    /\ HasSuffix(ToLower(inputPath), ExtMarkdown) => parser = MarkdownParser
    /\ HasSuffix(ToLower(inputPath), ExtDiff) => parser = DiffParser
    /\ HasSuffix(ToLower(inputPath), ExtPatch) => parser = DiffParser
    /\ HasSuffix(ToLower(inputPath), ExtJson) => parser = TodoParser
    /\ HasSuffix(ToLower(inputPath), ExtJsonl) => parser = JSONLParser

C18_LogIsMarkdown ==
  pc = "detected" =>
    (HasSuffix(ToLower(inputPath), ExtLog) => parser = MarkdownParser)


-----------------------------------------------------------------------------
(* SpecServer: serveHTML.  One watchAndRerender goroutine stores a new     *)
(* page under mu.Lock; each GET / handler copies the page under mu.RLock.  *)
(* A Go string is a (pointer, length) header that is stored and loaded one *)
(* word at a time, so a copy that overlaps a store can mix two pages.      *)
(* A page is named by the modification time of the file it renders; the    *)
(* file exists with modification time 1 when the server starts, and the    *)
(* watcher starts from the zero time.                                      *)

NumHandlers == 2
NumClients  == 1
MaxRenders  == 2

Handlers   == 1..NumHandlers
SSEClients == 1..NumClients

StringHeader(ptr, len) == [ptr |-> ptr, len |-> len]
NoPage == StringHeader(-1, -1)

\* sync.RWMutex: the writer holding it, a writer waiting in Lock, the readers.
Unlocked == [writer |-> FALSE, pending |-> FALSE, readers |-> {}]

InitServer ==
  /\ pc = "serve"
  /\ mu = Unlocked
  /\ currentHTML = StringHeader(1, 1)
  /\ fileModTime = 1 /\ lastModTime = 0 /\ rendered = NoPage
  /\ wpc = "poll"
  /\ hpc = [h \in Handlers |-> "idle"]
  /\ page = [h \in Handlers |-> NoPage]
  /\ clients = {}
  /\ ch = [c \in SSEClients |-> 0]
  /\ epc = [c \in SSEClients |-> "closed"]
  /\ TextIdle /\ blocks = <<>> /\ IndexIdle /\ JsonlIdle /\ CliIdle /\ ReadIdle
  /\ ReloadIdle /\ ViewIdle

restVars == <<pc, textVars, blocks, indexVars, jsonlVars, cliVars, readVars,
              reloadVars, viewVars>>

\* The served file is written again.
FileChanges ==
  /\ fileModTime < MaxRenders
  /\ fileModTime' = fileModTime + 1
  /\ UNCHANGED <<mu, currentHTML, lastModTime, rendered, wpc, hpc, page, clients,
                 ch, epc, restVars>>

\* watchAndRerender: os.Stat finds a modification time after lastModTime.
StatFile ==
  /\ wpc = "poll"
  /\ fileModTime > lastModTime
  /\ lastModTime' = fileModTime
  /\ wpc' = "read"
  /\ UNCHANGED <<mu, currentHTML, fileModTime, rendered, hpc, page, clients, ch, epc,
                 restVars>>

\* watchAndRerender: os.ReadFile, parser.Parse and RenderHTMLPage on the file
\* as it is now; a read error or a parse to no blocks goes on with the loop.
Rerender ==
  /\ wpc = "read"
  /\ \/ rendered' = StringHeader(fileModTime, fileModTime) /\ wpc' = "rendered"
     \/ wpc' = "poll" /\ UNCHANGED rendered
  /\ UNCHANGED <<mu, currentHTML, fileModTime, lastModTime, hpc, page, clients, ch,
                 epc, restVars>>

\* mu.Lock(), first half: the writer announces itself.
LockBegin ==
  /\ wpc = "rendered"
  /\ mu' = [mu EXCEPT !.pending = TRUE]
  /\ wpc' = "pending"
  /\ UNCHANGED <<currentHTML, fileModTime, lastModTime, rendered, hpc, page, clients,
                 ch, epc, restVars>>

CanLockAlways == TRUE

\* mu.Lock() returns once the active readers have left.
CanLock == mu.readers = {}

LockAcquire ==
  /\ wpc = "pending"
  /\ CanLock
  /\ mu' = [mu EXCEPT !.pending = FALSE, !.writer = TRUE]
  /\ wpc' = "locked"
  /\ UNCHANGED <<currentHTML, fileModTime, lastModTime, rendered, hpc, page, clients,
                 ch, epc, restVars>>

\* *currentHTML = rendered, first word.
StorePointer ==
  /\ wpc = "locked"
  /\ currentHTML' = [currentHTML EXCEPT !.ptr = rendered.ptr]
  /\ wpc' = "half"
  /\ UNCHANGED <<mu, fileModTime, lastModTime, rendered, hpc, page, clients, ch, epc,
                 restVars>>

\* *currentHTML = rendered, second word.
StoreLength ==
  /\ wpc = "half"
  /\ currentHTML' = [currentHTML EXCEPT !.len = rendered.len]
  /\ wpc' = "stored"
  /\ UNCHANGED <<mu, fileModTime, lastModTime, rendered, hpc, page, clients, ch, epc,
                 restVars>>

\* mu.Unlock()
Unlock ==
  /\ wpc = "stored"
  /\ mu' = [mu EXCEPT !.writer = FALSE]
  /\ wpc' = "notify"
  /\ UNCHANGED <<currentHTML, fileModTime, lastModTime, rendered, hpc, page, clients,
                 ch, epc, restVars>>

\* broadcaster.notify(): a non-blocking send to every subscribed client.
Notify ==
  /\ wpc = "notify"
  /\ ch' = [c \in SSEClients |-> IF c \in clients THEN 1 ELSE ch[c]]
  /\ wpc' = "poll"
  /\ UNCHANGED <<mu, currentHTML, fileModTime, lastModTime, rendered, hpc, page,
                 clients, epc, restVars>>

CanRLockAlways == TRUE

\* mu.RLock() returns when no writer holds or waits for the lock.
CanRLock == ~mu.writer /\ ~mu.pending

RLock(h) ==
  /\ hpc[h] = "idle"
  /\ CanRLock
  /\ mu' = [mu EXCEPT !.readers = @ \cup {h}]
  /\ hpc' = [hpc EXCEPT ![h] = "rlocked"]
  /\ UNCHANGED <<currentHTML, fileModTime, lastModTime, rendered, wpc, page, clients,
                 ch, epc, restVars>>

\* page := currentHTML, first word.
LoadPointer(h) ==
  /\ hpc[h] = "rlocked"
  /\ page' = [page EXCEPT ![h] = StringHeader(currentHTML.ptr, -1)]
  /\ hpc' = [hpc EXCEPT ![h] = "half"]
  /\ UNCHANGED <<mu, currentHTML, fileModTime, lastModTime, rendered, wpc, clients,
                 ch, epc, restVars>>

\* page := currentHTML, second word.
LoadLength(h) ==
  /\ hpc[h] = "half"
  /\ page' = [page EXCEPT ![h] = StringHeader(page[h].ptr, currentHTML.len)]
  /\ hpc' = [hpc EXCEPT ![h] = "loaded"]
  /\ UNCHANGED <<mu, currentHTML, fileModTime, lastModTime, rendered, wpc, clients,
                 ch, epc, restVars>>

\* mu.RUnlock()
RUnlock(h) ==
  /\ hpc[h] = "loaded"
  /\ mu' = [mu EXCEPT !.readers = @ \ {h}]
  /\ hpc' = [hpc EXCEPT ![h] = "respond"]
  /\ UNCHANGED <<currentHTML, fileModTime, lastModTime, rendered, wpc, page, clients,
                 ch, epc, restVars>>

\* fmt.Fprint(w, page): the handler returns.
Respond(h) ==
  /\ hpc[h] = "respond"
  /\ hpc' = [hpc EXCEPT ![h] = "idle"]
  /\ UNCHANGED <<mu, currentHTML, fileModTime, lastModTime, rendered, wpc, page,
                 clients, ch, epc, restVars>>

\* GET /events: broadcaster.subscribe()
Subscribe(c) ==
  /\ epc[c] = "closed"
  /\ clients' = clients \cup {c}
  /\ ch' = [ch EXCEPT ![c] = 0]
  /\ epc' = [epc EXCEPT ![c] = "open"]
  /\ UNCHANGED <<mu, currentHTML, fileModTime, lastModTime, rendered, wpc, hpc, page,
                 restVars>>

\* case <-client.ch: the client is told to reload.
Reload(c) ==
  /\ epc[c] = "open" /\ ch[c] = 1
  /\ ch' = [ch EXCEPT ![c] = 0]
  /\ UNCHANGED <<mu, currentHTML, fileModTime, lastModTime, rendered, wpc, hpc, page,
                 clients, epc, restVars>>

\* case <-r.Context().Done(): the deferred broadcaster.unsubscribe(client)
Unsubscribe(c) ==
  /\ epc[c] = "open"
  /\ clients' = clients \ {c}
  /\ epc' = [epc EXCEPT ![c] = "closed"]
  /\ UNCHANGED <<mu, currentHTML, fileModTime, lastModTime, rendered, wpc, hpc, page,
                 ch, restVars>>

NextServer ==
  \/ FileChanges \/ StatFile \/ Rerender \/ LockBegin \/ LockAcquire
  \/ StorePointer \/ StoreLength \/ Unlock \/ Notify
  \/ \E h \in Handlers : RLock(h)
  \/ \E h \in Handlers : LoadPointer(h)
  \/ \E h \in Handlers : LoadLength(h)
  \/ \E h \in Handlers : RUnlock(h)
  \/ \E h \in Handlers : Respond(h)
  \/ \E c \in SSEClients : Subscribe(c)
  \/ \E c \in SSEClients : Reload(c)
  \/ \E c \in SSEClients : Unsubscribe(c)

SpecServer == InitServer /\ [][NextServer]_vars

Reading(h) == hpc[h] \in {"rlocked", "half", "loaded"}
Writing    == wpc \in {"locked", "half", "stored"}

\* C17: no GET / handler reads currentHTML while watchAndRerender writes it,
\* the writer holds the lock alone, and every page a handler has obtained is
\* one complete page (the previous one or the new one), never a mix.
C17_ReadWriteExclusive ==
  pc = "serve" =>
    /\ \A h \in Handlers : ~(Reading(h) /\ Writing)
    /\ mu.writer <=> Writing
    /\ mu.writer => mu.readers = {}
    /\ mu.readers = {h \in Handlers : Reading(h)}
    /\ \A h \in Handlers :
         hpc[h] \in {"loaded", "respond", "idle"} =>
           /\ page[h].ptr = page[h].len
           /\ page[h] = NoPage \/ page[h].ptr \in 1..fileModTime

\* Two handlers read at the same time, after a new page has been stored.
C17_Witness ==
  /\ pc = "serve"
  /\ \A h \in Handlers : hpc[h] = "loaded"
  /\ currentHTML.ptr > 1
  /\ \E h \in Handlers : page[h].ptr = currentHTML.ptr


-----------------------------------------------------------------------------
(* SpecWatch: the read loop of watchFile on the bytes of the file.  Other  *)
(* processes append to the file and may truncate it; each pass of the loop *)
(* reads at most BufSize bytes at the file's read position.  What is done  *)
(* with a handled line is the subject of SpecFollow.                       *)

BufSize        == 3
MaxWatchBytes  == 5

WatchBytes == {"a", " ", NL}

InitialFiles == {<<>>, <<"a", NL>>, <<"a", NL, "a">>}

InitWatch ==
  /\ pc = "watch"
  /\ fileBytes \in InitialFiles
  /\ filePos = Len(fileBytes)          \* file.Seek(0, 2)
  /\ offset = Len(fileBytes)
  /\ partial = <<>>
  /\ dispatched = <<>> /\ handled = <<>>
  /\ hist = [NoHist EXCEPT !.start = Len(fileBytes)]
  /\ TextIdle /\ blocks = <<>> /\ IndexIdle /\ JsonlIdle /\ CliIdle /\ ServerIdle
  /\ ReloadIdle /\ ViewIdle

watchRest == <<pc, textVars, blocks, indexVars, jsonlVars, cliVars, serverVars,
               reloadVars, viewVars>>

\* Another process appends one byte to the file.
AppendByte ==
  /\ hist.written < MaxWatchBytes
  /\ \E b \in WatchBytes : fileBytes' = Append(fileBytes, b)
  /\ hist' = [hist EXCEPT !.written = @ + 1]
  /\ UNCHANGED <<filePos, offset, partial, dispatched, handled, watchRest>>

\* Another process truncates the file to length 0, once; the read position
\* of watchFile's open file stays where it is.
TruncateFile ==
  /\ ~hist.truncated
  /\ Len(fileBytes) > 0
  /\ fileBytes' = <<>>
  /\ hist' = [hist EXCEPT !.truncated = TRUE]
  /\ UNCHANGED <<filePos, offset, partial, dispatched, handled, watchRest>>

\* The lines of the loop that reach ParseLineInfo: trimmed, blank ones skipped.
RECURSIVE HandledOf(_)
HandledOf(lines) ==
  IF Len(lines) = 0 THEN <<>>
  ELSE IF TrimSpace(lines[1]) = <<>> THEN HandledOf(Tail(lines))
  ELSE <<TrimSpace(lines[1])>> \o HandledOf(Tail(lines))

ReadDataNoPartial(chunk) == chunk

\* data := partial + string(buf[:n])
ReadData(chunk) == partial \o chunk

\* lines := strings.Split(data, "\n"); the last one is held back in partial
\* and the others are ranged over.
ConsumeLines(lines) ==
  /\ partial' = lines[Len(lines)]
  /\ dispatched' = dispatched \o SubSeq(lines, 1, Len(lines) - 1)
  /\ handled' = handled \o HandledOf(SubSeq(lines, 1, Len(lines) - 1))
  /\ hist' = [hist EXCEPT !.joined = @ \/ (partial # <<>> /\ Len(lines) > 1)]

\* One pass of the loop in which file.Read returns n > 0 bytes.
ReadSome ==
  /\ pc = "watch"
  /\ \E n \in 1..BufSize :
       /\ filePos + n <= Len(fileBytes)
       /\ filePos' = filePos + n
       /\ offset' = offset + n
       /\ ConsumeLines(Split(ReadData(SubSeq(fileBytes, filePos + 1, filePos + n)), NL))
  /\ UNCHANGED <<fileBytes, watchRest>>

\* One pass of the loop in which file.Read returns 0 bytes and the file is
\* found shorter than offset: file.Seek(0, 0); offset = 0.
ReadNoneShrunk ==
  /\ pc = "watch"
  /\ filePos >= Len(fileBytes)
  /\ Len(fileBytes) < offset
  /\ filePos' = 0
  /\ offset' = 0
  /\ hist' = [hist EXCEPT !.detected = TRUE, !.mark = Len(dispatched),
                          !.stale = partial]
  /\ UNCHANGED <<fileBytes, partial, dispatched, handled, watchRest>>

\* One pass of the loop in which file.Read returns 0 bytes and the file is
\* not shorter than offset: nothing changes.
ReadNone ==
  /\ pc = "watch"
  /\ filePos >= Len(fileBytes)
  /\ ~(Len(fileBytes) < offset)
  /\ UNCHANGED vars

NextWatch == AppendByte \/ TruncateFile \/ ReadSome \/ ReadNoneShrunk \/ ReadNone

SpecWatch == InitWatch /\ [][NextWatch]_vars

\* The text of which ls are the newline-terminated lines.
RECURSIVE Terminated(_)
Terminated(ls) ==
  IF Len(ls) = 0 THEN <<>> ELSE ls[1] \o <<NL>> \o Terminated(Tail(ls))

HasNewline(l) == \E i \in 1..Len(l) : l[i] = NL

\* C19: without a truncation, whatever the sizes of the reads, the lines
\* dispatched so far are exactly the newline-terminated lines of the bytes
\* appended since the watch started and read so far, once each and in
\* order, and the fragment after the last newline is held back in partial.
C19_ChunkIndependence ==
  (pc = "watch" /\ ~hist.truncated) =>
    /\ Terminated(dispatched) \o partial = SubSeq(fileBytes, hist.start + 1, filePos)
    /\ \A i \in 1..Len(dispatched) : ~HasNewline(dispatched[i])
    /\ ~HasNewline(partial)
    /\ handled = HandledOf(dispatched)
    /\ offset = filePos

\* A line has been dispatched that began in an earlier read, and a new
\* fragment is being held back.
C19_Witness ==
  /\ pc = "watch" /\ ~hist.truncated
  /\ hist.joined
  /\ Len(dispatched) >= 2
  /\ partial # <<>>

\* The complete lines of a text.
CompleteLines(text) == SubSeq(Split(text, NL), 1, Len(Split(text, NL)) - 1)

\* C20: once watchFile has found the file shorter than its offset and has
\* gone back to the first byte, the lines it dispatches are the complete
\* lines of the file's new content, once each and unaltered, with nothing
\* read before the truncation mixed in: when it has read up to the end of
\* the file, the lines dispatched since are the complete lines of the file.
C20_TruncationRereads ==
  (pc = "watch" /\ hist.detected /\ filePos = Len(fileBytes)) =>
    SubSeq(dispatched, hist.mark + 1, Len(dispatched)) = CompleteLines(fileBytes)

\* The detection itself: a read that returns nothing while the file is
\* shorter than offset sends reading back to the first byte and leaves
\* partial as it was.
C20_SeeksToStart ==
  [][(pc = "watch" /\ filePos >= Len(fileBytes) /\ Len(fileBytes) < offset
        /\ (filePos' # filePos \/ offset' # offset))
       => (filePos' = 0 /\ offset' = 0 /\ partial' = partial)]_vars

\* What is dispatched after the detection: the lines of the fragment held
\* back at that time followed by the new content.
C20_StaleFragmentKept ==
  (pc = "watch" /\ hist.detected) =>
    Terminated(SubSeq(dispatched, hist.mark + 1, Len(dispatched))) \o partial
      = hist.stale \o SubSeq(fileBytes, 1, filePos)

\* The new content has been read after a detection made while a fragment
\* was held back.
C20_StaleReached ==
  /\ pc = "watch" /\ hist.detected /\ hist.stale # <<>>
  /\ filePos = Len(fileBytes) /\ Len(dispatched) > hist.mark

-----------------------------------------------------------------------------
(* SpecReload: follow mode on a file that is no JSONL transcript.          *)
(* runFollowMode shows the blocks of the file as first read;               *)
(* watchGenericFile polls the modification time and hands the re-parsed    *)
(* blocks to onReload, which queues the replacement for the UI thread and  *)
(* returns when that thread has run it (tview's QueueUpdateDraw).          *)
(* content is the file's current text; wpc is where the watcher stands:    *)
(* "poll" before os.Stat, "read" before ioutil.ReadFile, "wait" inside     *)
(* onReload.                                                               *)

MaxChanges == 2

PathMd   == <<"n">> \o ExtMd
PathTxt  == <<"n">> \o ExtTxt
PathDiff == <<"n">> \o ExtDiff
PathJson == <<"n">> \o ExtJson
PathJsonl == <<"n">> \o ExtJsonl

ReloadPaths == {PathMd, PathTxt, PathDiff, PathJson, PathJsonl}

TodoText == <<"[", "{", "\"", "c", "o", "n", "t", "e", "n", "t", "\"", ":", "\"", "a", "\"", ",", "\"", "s", "t", "a", "t", "u", "s", "\"", ":", "\"", "c", "o", "m", "p", "l", "e", "t", "e", "d", "\"", "}", "]">>

TranscriptText ==
  <<"{", "\"", "t", "y", "p", "e", "\"", ":", "\"", "u", "s", "e", "r", "\"", ",", "\"", "m", "e", "s", "s", "a", "g", "e", "\"", ":", "{", "\"", "c", "o", "n", "t", "e", "n", "t", "\"", ":", "\"", "h", "i", "\"", "}", "}">>
    \o <<NL>>
    \o <<"{", "\"", "t", "y", "p", "e", "\"", ":", "\"", "a", "s", "s", "i", "s", "t", "a", "n", "t", "\"", ",", "\"", "m", "e", "s", "s", "a", "g", "e", "\"", ":", "{", "\"", "c", "o", "n", "t", "e", "n", "t", "\"", ":", "[", "{", "\"", "t", "y", "p", "e", "\"", ":", "\"", "t", "e", "x", "t", "\"", ",", "\"", "t", "e", "x", "t", "\"", ":", "\"", "o", "k", ".", "\"", "}", "]", "}", "}">>

ReloadContents ==
  {<<>>,
   LText,
   Join(<<LHeader1, LText>>, <<NL>>),
   Join(<<LHeader1, LText, LHeader2>>, <<NL>>),
   Join(<<LShell, LCommand, LText>>, <<NL>>),
   Join(<<LFileOld, LHunk, LAdded>>, <<NL>>),
   TodoText,
   TranscriptText}

\* JSONLParser.Parse on the text of a file, with the Filters of a parser
\* that detectParser made (nil).
JSONLParserParse(text) == JSONLParse(DecodeLines(text), NoFilters).blocks

\* parser.Parse(content) for the parser detectParser returned.
GenericParse(p, text) ==
  IF p = TodoParser THEN TodoParserParse(DecodeTodos(text))
  ELSE IF p = DiffParser THEN DiffParserParse(text)
  ELSE IF p = JSONLParser THEN JSONLParserParse(text)
  ELSE IF p = TxtParser THEN TxtParserParse(text)
  ELSE MarkdownParserParse(text)

\* runFollowMode 210-238: the first parse, the index, the view on the last
\* block; follow mode does not start without blocks.
ReloadStartsWith(bs) ==
  /\ Len(bs) > 0
  /\ blocks = bs
  /\ nameIndex = NewBlockIndex(bs)
  /\ currentPos = Len(bs) - 1
  /\ currentPage = bs[Len(bs)].TotalPages - 1
  /\ display = TranslateANSI(FormatBlockPage(bs[Len(bs)], bs[Len(bs)].TotalPages - 1,
                                             terminalWidth, BorderNone))

InitReload ==
  /\ pc = "generic"
  /\ terminalWidth = detectTerminalWidth(NoEnvironment)
  /\ inputPath \in ReloadPaths
  /\ parser = detectParser(inputPath)
  /\ content \in ReloadContents
  /\ ReloadStartsWith(GenericParse(detectParser(inputPath), content))
  /\ fileModTime = 1 /\ lastModTime = 0
  /\ reloads = <<>> /\ contentTypes = <<>>
  /\ queued = 0 /\ query = <<>> /\ found = -1
  /\ ctype = NoType /\ hunks = <<>> /\ todos = NoTodos
  /\ JsonlIdle /\ ReadIdle
  /\ mu = <<>> /\ currentHTML = <<>> /\ rendered = <<>> /\ wpc = "poll" /\ hpc = <<>>
  /\ page = <<>> /\ clients = {} /\ ch = <<>> /\ epc = <<>>

reloadRest ==
  <<pc, ctype, hunks, todos, queued, query, found, jsonlVars, cliVars, readVars,
    mu, currentHTML, rendered, hpc, page, clients, ch, epc, contentTypes, terminalWidth>>

\* Another process rewrites the file.
FileRewritten ==
  /\ pc = "generic"
  /\ fileModTime <= MaxChanges
  /\ fileModTime' = fileModTime + 1
  /\ content' \in ReloadContents
  /\ UNCHANGED <<blocks, nameIndex, currentPos, currentPage, display, lastModTime,
                 reloads, wpc, reloadRest>>

QueueReloadAlways(newBlocks) == Append(reloads, newBlocks)

\* if len(blocks) > 0 { onReload(blocks) }: app.QueueUpdateDraw(...)
QueueReload(newBlocks) ==
  IF Len(newBlocks) > 0 THEN Append(reloads, newBlocks) ELSE reloads

\* watchGenericFile: os.Stat finds a modification time after lastModTime,
\* which is recorded before the file is read.
PollChanged ==
  /\ pc = "generic" /\ wpc = "poll"
  /\ fileModTime > lastModTime
  /\ lastModTime' = fileModTime
  /\ wpc' = "read"
  /\ UNCHANGED <<content, blocks, nameIndex, currentPos, currentPage, display,
                 fileModTime, reloads, reloadRest>>

\* The watcher is inside onReload while an update is queued.
AfterQueue(rs) == IF Len(rs) > 0 THEN "wait" ELSE "poll"

ReadQueues(rs) == reloads' = rs /\ wpc' = AfterQueue(rs)

\* watchGenericFile: ioutil.ReadFile on the file as it is now (which may
\* fail), Parse, and the blocks handed to onReload when there are any.
ReadChanged ==
  /\ pc = "generic" /\ wpc = "read"
  /\ \/ ReadQueues(QueueReload(GenericParse(parser, content)))
     \/ wpc' = "poll" /\ UNCHANGED reloads     \* ioutil.ReadFile fails: continue
  /\ UNCHANGED <<content, blocks, nameIndex, currentPos, currentPage, display,
                 fileModTime, lastModTime, reloadRest>>

\* part_002 FormatBlockPlain
FormatBlockPlain(block, width, style, borderStyle) ==
  FormatBlockPage(block, 0, width, borderStyle)

\* runFollowMode 268-272: FormatBlockPlain of the current block is written
\* to the view; nothing is written when GetCurrentBlock is nil.
ShowsPlain(bs, pos) ==
  display' = IF GetBlockByPosition(bs, pos) >= 0
             THEN TranslateANSI(FormatBlockPlain(bs[pos + 1], terminalWidth, "auto",
                                                 BorderNone))
             ELSE display

\* The UI thread runs the queued replacement (runFollowMode 260-272):
\* the blocks, the index, the position and FormatBlockPlain of the last
\* block in the view; then onReload returns.
RunReload ==
  /\ pc = "generic" /\ wpc = "wait"
  /\ Len(reloads) > 0
  /\ blocks' = Head(reloads)
  /\ nameIndex' = NewBlockIndex(Head(reloads))
  /\ currentPos' = Len(Head(reloads)) - 1
  /\ currentPage' = 0
  /\ ShowsPlain(Head(reloads), Len(Head(reloads)) - 1)
  /\ reloads' = Tail(reloads)
  /\ wpc' = "poll"
  /\ UNCHANGED <<content, fileModTime, lastModTime, reloadRest>>

NextReload == FileRewritten \/ PollChanged \/ ReadChanged \/ RunReload \/ KeyNext \/ KeyPrev

SpecReload == InitReload /\ [][NextReload]_vars

\* The change has been processed: the poller has seen the latest
\* modification time and the UI thread has run every queued update.
ChangeProcessed ==
  pc = "generic" /\ lastModTime = fileModTime /\ wpc = "poll" /\ reloads = <<>>

\* C21: once a change has been processed, the Block sequence and the name
\* map are those of the file's current content, also when that content
\* parses to zero Blocks or the read failed.
C21_NoOldBlockRemains ==
  ChangeProcessed =>
    /\ blocks = GenericParse(parser, content)
    /\ nameIndex = NewBlockIndex(GenericParse(parser, content))

\* C21 as the code has it: the read after a poll that found a later
\* modification time queues at most one replacement, namely the non-empty
\* parse of the content read; the Block sequence and the name map change
\* only when the UI thread runs a queued replacement, and then both are
\* replaced as a whole
\* by the queued Blocks and the map built from them, moving the view to
\* the first page of the last Block; the shown Blocks are never empty.
C21_ReloadReplacesWhole ==
  [][/\ lastModTime' # lastModTime => (wpc' = "read" /\ reloads' = reloads)
     /\ (wpc = "read" /\ wpc' # "read") =>
          \/ reloads' = reloads /\ wpc' = "poll"
          \/ /\ Len(GenericParse(parser, content)) > 0
             /\ reloads' = <<GenericParse(parser, content)>>
             /\ wpc' = "wait"
     /\ (blocks' # blocks \/ nameIndex' # nameIndex) =>
          /\ Len(reloads) > 0
          /\ blocks' = Head(reloads) /\ Len(blocks') > 0
          /\ nameIndex' = NewBlockIndex(blocks')
          /\ currentPos' = Len(blocks') - 1 /\ currentPage' = 0
     /\ (pc = "generic" /\ Len(reloads') < Len(reloads)) =>
          blocks' = Head(reloads)
    ]_vars

\* The file now parses to zero Blocks, the change has been processed, and
\* the Blocks of an earlier content are still shown.
C21_Witness ==
  /\ ChangeProcessed
  /\ lastModTime > 1
  /\ GenericParse(parser, content) = <<>>
  /\ Len(blocks) > 0

\* A replacement has run: the shown Blocks are those of the current content,
\* which differ from the first ones.
C21_Replaced ==
  /\ ChangeProcessed
  /\ lastModTime > 1
  /\ blocks = GenericParse(parser, content)
  /\ currentPage = 0


-----------------------------------------------------------------------------
(* JSONL follow mode: which thread changes the index.  In SpecFollow the   *)
(* steps of the watchFile goroutine are the Dispatch steps, which lengthen *)
(* appended, and the steps that move its position wpc on;                  *)
(* the steps of the UI event thread are the DrawUpdate steps,              *)
(* which run an update queued with app.QueueUpdateDraw, and the key        *)
(* handlers.                                                               *)

WatcherStep == appended' # appended \/ wpc' # wpc
UIStep      == appended' = appended /\ wpc' = wpc

\* C22: in JSONL follow mode the Block sequence and the name map are
\* changed on the UI event thread only, never by a step of the watcher
\* goroutine.
C22_MutationsOnUIThread ==
  [][(blocks' # blocks \/ nameIndex' # nameIndex) => (UIStep /\ ~WatcherStep)]_vars

\* What the UI thread does change: the position and the view only, and a
\* queued update moves to the last block.
C22_UIThreadMovesView ==
  [][UIStep => (/\ blocks' = blocks /\ nameIndex' = nameIndex
                /\ queued' < queued => currentPos' = Len(blocks) - 1)]_vars


\* The Blocks, and their turns, that watchFile has appended since it started.
FollowedBlocks == SubSeq(blocks, Len(JSONLParse(jlines, filters).blocks) + 1, Len(blocks))
FollowedTurns  == SubSeq(turns, Len(JSONLParse(jlines, filters).blocks) + 1, Len(turns))

ContentsOf(bs) == [i \in 1..Len(bs) |-> bs[i].Content]

\* C23: the turns watchFile has built from the lines dispatched so far are
\* the turns JSONLParser.Parse builds for the same lines under the same
\* filters, and so are the number of Blocks and their Content, in order.
C23_FollowEqualsBatch ==
  pc = "follow" =>
    /\ FollowedTurns = JSONLParse(appended, filters).turns
    /\ ContentsOf(FollowedBlocks) = ContentsOf(JSONLParse(appended, filters).blocks)

\* The same for dispatched lines none of which is a genuine user line with
\* empty text.
NoEmptyUserLine(lines) ==
  \A i \in 1..Len(lines) :
    GenuineUserLine(lines[i]) => ExtractUserContent(lines[i]) # <<>>

C23_EqualWithoutEmptyUserLines ==
  (pc = "follow" /\ NoEmptyUserLine(appended)) =>
    /\ FollowedTurns = JSONLParse(appended, filters).turns
    /\ ContentsOf(FollowedBlocks) = ContentsOf(JSONLParse(appended, filters).blocks)


NamesAndContents(bs) == [i \in 1..Len(bs) |-> <<bs[i].Name, bs[i].Content>>]

\* C27: after watchFile has dispatched the lines appended to a file, the
\* Blocks of the index are those JSONLParser.Parse returns, under the same
\* filters, for the file as first read followed by the appended lines; an
\* assistant or tool-result line that belongs to the last turn of the file
\* as first read is added to that turn's Block.
C27_FollowAgreesWithReopen ==
  pc = "follow" =>
    NamesAndContents(blocks)
      = NamesAndContents(JSONLParse(jlines \o appended, filters).blocks)

\* What the code does with such a line: watchFile starts without a current
\* turn (currentTurn nil, currentBlockIdx -1), so until it has itself
\* started a turn the Blocks of the first read stay as they were.
C27_LastTurnStaysClosed ==
  (pc = "follow" /\ currentBlockIdx = -1) =>
    /\ ~currentTurn.open
    /\ blocks = JSONLParse(jlines, filters).blocks

\* Reached: a second assistant line appended to a file whose last turn holds
\* a user line and an assistant line, with both filters on.
C27_AssistantAfterStart ==
  /\ pc = "follow" /\ jlines = <<UserHi, AssistantReply>>
  /\ appended = <<AssistantReply>>
  /\ filters.user /\ filters.assistant


-----------------------------------------------------------------------------
(* Navigator.handleJump and GetCurrentBlock.                               *)

\* C28: after a successful jump the current Block (GetCurrentBlock) is the
\* Block at the position of the one the jump returned, also when several
\* Blocks share a name and the query matches by substring.
C28_JumpLandsOnFound ==
  (pc = "jumped" /\ found >= 0) =>
     GetBlockByPosition(blocks, currentPos) = found

\* What the code does: the position is the name map's entry for the found
\* Block's name, the last Block of that name (ignoring case).
C28_JumpLandsOnLastOfName ==
  (pc = "jumped" /\ found >= 0) =>
     /\ currentPos = LastOccurrence(blocks[found + 1].Name) - 1
     /\ currentPage = 0
     /\ ToLower(blocks[currentPos + 1].Name) = ToLower(blocks[found + 1].Name)

\* Reached: a substring jump that returned the first of two Blocks of one
\* name.
C28_DuplicateSubstringJump ==
  /\ pc = "jumped" /\ found >= 0
  /\ ToLower(Trimmed(query)) \notin DOMAIN nameIndex
  /\ Cardinality(Occurrences(blocks[found + 1].Name)) >= 2

-----------------------------------------------------------------------------
(* The name map and the Block names.  SpecNameMap puts together the three  *)
(* ways an index comes about and changes: NewBlockIndex over blocks whose  *)
(* names collide up to letter case (SpecIndex), JSONL follow mode, where   *)
(* watchFile appends and rewrites blocks (SpecFollow), and follow mode on  *)
(* a generic file, where every change replaces the index (SpecReload).     *)

InitNameMap == InitIndex \/ InitFollow \/ InitReload

\* The lookups of SpecIndex and the key handlers of follow mode are left
\* out: they write neither blocks nor map, and no step that does reads the
\* position or the view they write.
NextNameMap ==
  \/ BuildIndex
  \/ Dispatch \/ WriteNameIndex \/ QueueUpdate \/ DrawUpdate
  \/ FileRewritten \/ PollChanged \/ ReadChanged \/ RunReload

SpecNameMap == InitNameMap /\ [][NextNameMap]_vars

\* The index exists and no step is under way that writes it: NewBlockIndex
\* has returned, and watchFile is not between its write of index.blocks and
\* its write of index.nameIndex (follower.go 141-142).
IndexSettled == pc # "blocks" /\ ~(pc = "follow" /\ wpc = "index")

NameMapConsistent(bs, ni) ==
  /\ \A k \in DOMAIN ni :
       /\ ni[k] >= 0 /\ ni[k] < Len(bs)
       /\ ToLower(bs[ni[k] + 1].Name) = k
  /\ \A i \in 1..Len(bs) : ToLower(bs[i].Name) \in DOMAIN ni

\* C29: after the index is built and after every step of follow mode (the
\* append of a Block, the rewrite of the open turn's Block, the reload of a
\* generic file), every entry k -> i of the name map has 0 <= i <
\* len(blocks) and lowercase(blocks[i].Name) = k, and the lowercased name of
\* every Block is a key of the map.
C29_NameMapConsistent == IndexSettled => NameMapConsistent(blocks, nameIndex)

\* Reached: watchFile has appended a Block, entered its name and rebuilt it
\* in place.
C29_Witness ==
  /\ pc = "follow" /\ wpc = "line" /\ Len(appended) >= 2
  /\ Len(blocks) > Len(JSONLParse(jlines, filters).blocks)
  /\ currentTurn.open /\ Len(currentTurn.Parts) >= 2
  /\ currentBlockIdx = Len(blocks) - 1
  /\ nameIndex[ToLower(blocks[currentBlockIdx + 1].Name)] = currentBlockIdx

\* Reached: the reload of a generic file has replaced an index by one over
\* other blocks, two of them.
C29_Reloaded ==
  /\ pc = "generic" /\ wpc = "poll" /\ reloads = <<>> /\ lastModTime > 1
  /\ Len(blocks) = 2
  /\ blocks = GenericParse(parser, content)
  /\ DOMAIN nameIndex = {ToLower(blocks[1].Name), ToLower(blocks[2].Name)}

\* Reached: an index built over three blocks, the first and the last of
\* one name up to letter case.
C29_CollidingNames ==
  /\ pc = "indexed" /\ Len(blocks) = 3
  /\ blocks[1].Name # blocks[3].Name
  /\ ToLower(blocks[1].Name) = ToLower(blocks[3].Name)
  /\ ToLower(blocks[2].Name) # ToLower(blocks[1].Name)
  /\ nameIndex[ToLower(blocks[1].Name)] = 2

UniqueNames(bs) ==
  \A i, j \in 1..Len(bs) : bs[i].Name = bs[j].Name => i = j

\* C30: in JSONL follow mode the Block names stay unique: each Block
\* watchFile appends, numbered on from the count of Blocks the initial Parse
\* returned, has a name different from every Block already in the index.
C30_NamesStayUnique ==
  [][(pc = "follow" /\ Len(blocks') > Len(blocks)) =>
       \A i \in 1..Len(blocks) : blocks[i].Name # blocks'[Len(blocks')].Name]_vars

\* The same for a file whose first read holds no genuine user line with
\* empty text: Parse then numbers its Blocks 1..n and watchFile goes on
\* from n + 1.
C30_UniqueWithoutEmptyUserLines ==
  (pc = "follow" /\ NoEmptyUserLine(jlines)) => UniqueNames(blocks)

\* Reached: two Blocks of one name in the index.
C30_DuplicateReached ==
  pc = "follow" /\ ~UniqueNames(blocks)

-----------------------------------------------------------------------------
(* JSONLParser.Parse with the user filter disabled.                        *)

\* C26: with the user filter disabled Parse returns no Block, whatever the
\* input and the other filters: no turn is ever opened, so the parts of
\* assistant, diff and tool-result lines have nothing to join.
C26_NoBlocksWithoutUser ==
  (pc \in {"loop", "done"} /\ ~filters.user) =>
     /\ blocks = <<>>
     /\ ~currentTurn.open

\* Reached: Parse has returned with the user filter off and the assistant
\* and diff filters on, for an input of a user line followed by an assistant
\* line and a tool result with a patch.
C26_Witness ==
  /\ pc = "done" /\ ~filters.user /\ filters.assistant /\ filters.diff
  /\ \E i, j, k \in 1..Len(jlines) :
       /\ i < j /\ j < k
       /\ jlines[i] = UserHi /\ jlines[j] = AssistantReply /\ jlines[k] = ToolPatch

-----------------------------------------------------------------------------
(* parser_jsonl.go ScanContentTypes and part_003 showContentSelector: the  *)
(* dry-run pass that counts the categories of a transcript, and the        *)
(* selector that turns its result into JSONLParser.Filters.                *)
(* pc: "scan" before the call of ScanContentTypes, "select" while the      *)
(* selector reads toggles, "confirmed" after it has returned the filters.  *)

MaxScanLines == 3

InitScan ==
  /\ pc = "scan"
  /\ jlines \in SeqUpTo(ScanTranscript, MaxScanLines)
  /\ filters = NoFilters
  /\ lineNum = 0 /\ currentTurn = ClosedTurn /\ turnNumber = 0
  /\ currentBlockIdx = -1 /\ turns = <<>> /\ appended = <<>>
  /\ blocks = <<>>
  /\ TextIdle /\ IndexIdle /\ CliIdle /\ ServerIdle /\ ReadIdle /\ ReloadIdle
  /\ ViewIdle

scanRest ==
  <<textVars, blocks, indexVars, jlines, lineNum, currentTurn, turnNumber,
    currentBlockIdx, turns, appended, cliVars, serverVars, readVars, reloadVars,
    display, terminalWidth>>

\* showContentSelector, line 164: the transcript is scanned.
Scan ==
  /\ pc = "scan"
  /\ contentTypes' = ScanContentTypes(jlines)
  /\ pc' = "select"
  /\ UNCHANGED <<scanRest, filters>>

\* showContentSelector, lines 187-202: a digit toggles the entry it numbers.
Toggle(i) ==
  /\ pc = "select" /\ i \in 1..Len(contentTypes)
  /\ contentTypes' = [contentTypes EXCEPT ![i].Enabled = ~@]
  /\ UNCHANGED <<scanRest, filters, pc>>

\* showContentSelector, lines 165-167 and 189-229: with nothing found, or
\* on an empty input line, the filters are returned.
Confirm ==
  /\ pc = "select"
  /\ filters' = FiltersOf(contentTypes)
  /\ pc' = "confirmed"
  /\ UNCHANGED <<scanRest, contentTypes>>

NextScan == Scan \/ (\E i \in 1..Len(TypeOrder) : Toggle(i)) \/ Confirm

SpecScan == InitScan /\ [][NextScan]_vars

CountOf(ts, name) ==
  IF \E i \in 1..Len(ts) : ts[i].Name = name
  THEN (CHOOSE c \in {ts[i].Count : i \in {j \in 1..Len(ts) : ts[j].Name = name}} : TRUE)
  ELSE 0

UserTyped(lines) == {i \in 1..Len(lines) : lines[i].raw = "json" /\ lines[i].type = "user"}

\* C24 (as stated): the scan counts a user-typed line under tool_result
\* exactly when Parse treats it as a tool result (some item of
\* message.content has type tool_result) and under user exactly when Parse
\* treats it as a genuine user message.
C24_ScanMirrorsParse ==
  (pc = "select") =>
     /\ CountOf(ScanContentTypes(jlines), "tool_result")
          = Cardinality({i \in UserTyped(jlines) : isToolResultMessage(jlines[i])})
     /\ CountOf(ScanContentTypes(jlines), "user")
          = Cardinality({i \in UserTyped(jlines) : GenuineUserLine(jlines[i])})

FirstItemIs(msg, ty) ==
  /\ msg.content.kind = "array" /\ Len(msg.content.items) > 0
  /\ msg.content.items[1].type = ty

FirstItemIsNot(msg, ty) ==
  /\ msg.content.kind = "array" /\ Len(msg.content.items) > 0
  /\ msg.content.items[1].type # ty

\* C24 (amended): the scan counts a user-typed line under tool_result
\* exactly when the first item of its message.content array has type
\* tool_result, and under user exactly when message.content is a string or
\* an array whose first item has another type; a user-typed line without
\* content or with an empty array is counted nowhere.  The scan leaves the
\* filters and the parser state as they were.
C24_ScanFirstItem ==
  [][pc = "scan" =>
       /\ CountOf(contentTypes', "tool_result")
            = Cardinality({i \in UserTyped(jlines) :
                             FirstItemIs(jlines[i], "tool_result")})
       /\ CountOf(contentTypes', "user")
            = Cardinality({i \in UserTyped(jlines) :
                             \/ jlines[i].content.kind = "string"
                             \/ FirstItemIsNot(jlines[i], "tool_result")})
       /\ UNCHANGED <<filters, blocks, turns, currentTurn, turnNumber, lineNum>>]_vars

\* Reached: a scanned transcript with a user line whose tool_result item is
\* not the first one, counted as user.
C24_Witness ==
  /\ pc = "select"
  /\ \E i \in 1..Len(jlines) : jlines[i] = UserMixed
  /\ CountOf(contentTypes, "user") > 0

-----------------------------------------------------------------------------
(* SpecRender: a diff file, or a Markdown file with the diff under a      *)
(* heading, opened in the reader or in follow mode.                        *)
(* pc: "open" before the parse, "reader" with the blocks, "rendered" after *)
(* renderAll has written the view; "openfollow" before runFollowMode's     *)
(* parse, "following" with its view.                                       *)

MaxRenderLines == 4

LFunc == <<"+", "f", "u", "n", "c", " ", "f", "(", "x", ")", " ", "{">>

RenderVocabulary == {LFileNew, LHunk, LAdded, LRemoved, LContext, LFunc}

RenderInputs == {Join(ls, <<NL>>) : ls \in SeqUpTo(RenderVocabulary, MaxRenderLines)}

HeadingA == <<"#", " ", "A", NL>>

\* viewTextFile, lines 291-308: the parser forced with the type flag, or
\* the one detected from the path; a type that is none of the five leaves
\* the parser nil.
ForcedParser(forceType) ==
  IF forceType = "md" THEN MarkdownParser
  ELSE IF forceType = "jsonl" THEN JSONLParser
  ELSE IF forceType = "diff" THEN DiffParser
  ELSE IF forceType = "json" THEN TodoParser
  ELSE IF forceType = "txt" THEN TxtParser
  ELSE NoParser

ParserFor(filePath, forceType) ==
  IF forceType # "" THEN ForcedParser(forceType) ELSE detectParser(filePath)

\* showContentSelector for a transcript: the filters its toggles can give.
\* No selector is shown for another parser.
SelectorFilters(p, text) ==
  IF p = JSONLParser
  THEN {FiltersOf(ts) : ts \in SelectorOutcomes(ScanContentTypes(DecodeLines(text)))}
  ELSE {NoFilters}

\* viewTextFile without follow, lines 315-326: a transcript is parsed with
\* the filters of the selector, a Markdown file is read as one continuous
\* document, any other file by its parser.
RenderParse(p, text, termHeight, f) ==
  IF p = JSONLParser THEN JSONLParse(DecodeLines(text), f).blocks
  ELSE IF p = MarkdownParser THEN ParseContinuous(text, termHeight)
  ELSE GenericParse(p, text)

\* runFollowMode, lines 205-213.  isJSONL is true exactly when viewTextFile
\* chose the JSONLParser (lines 292-309); for any other choice the parser
\* is detected again from the path, whatever the type flag was.
FollowParse(p, filePath, text, f) ==
  IF p = JSONLParser THEN JSONLParse(DecodeLines(text), f).blocks
  ELSE GenericParse(detectParser(filePath), text)

RenderPaths == {PathDiff, PathMd, PathJsonl}

ForceTypes == {"", "diff"}

\* The text of a file by its path: a diff, the diff under a heading, a
\* transcript.
RenderContent(filePath, text) ==
  IF filePath = PathMd THEN HeadingA \o text
  ELSE IF filePath = PathJsonl THEN TranscriptText
  ELSE text

\* A diff file, a Markdown file with the diff under a heading, or a
\* transcript, opened in the reader ("open") or with -f ("openfollow");
\* the terminal width is detected before the parser is chosen.
InitRender ==
  /\ pc \in {"open", "openfollow"}
  /\ inputPath \in RenderPaths
  /\ \E text \in RenderInputs : content = RenderContent(inputPath, text)
  /\ \E env \in Environments : terminalWidth = detectTerminalWidth(env)
  /\ \E forceType \in ForceTypes : parser = ParserFor(inputPath, forceType)
  /\ ctype = NoType /\ hunks = <<>> /\ todos = NoTodos /\ blocks = <<>>
  /\ IndexIdle /\ JsonlIdle /\ ServerIdle /\ ReadIdle /\ ReloadIdle
  /\ contentTypes = <<>> /\ display = <<>>

renderFixed ==
  <<content, ctype, hunks, todos, queued, query, found, jlines, lineNum, currentTurn,
    turnNumber, currentBlockIdx, turns, appended, cliVars, serverVars, readVars,
    reloadVars, contentTypes>>

renderRest == <<renderFixed, terminalWidth>>

\* viewTextFile: the parse; runReaderMode returns on no blocks.
OpenReader ==
  /\ pc = "open"
  /\ \E termHeight \in TermHeights :
       \E f \in SelectorFilters(parser, content) :
         /\ filters' = f
         /\ blocks' = RenderParse(parser, content, termHeight, f)
         /\ pc' = IF Len(RenderParse(parser, content, termHeight, f)) = 0
                  THEN "noblocks" ELSE "reader"
  /\ UNCHANGED <<renderRest, nameIndex, currentPos, currentPage, display>>

\* runReaderMode: renderAll writes every page to the view.
RenderAll ==
  /\ pc = "reader"
  /\ display' = TranslateANSI(renderAllContent(blocks, terminalWidth, BorderNone))
  /\ pc' = "rendered"
  /\ UNCHANGED <<renderRest, filters, nameIndex, currentPos, currentPage, blocks>>

\* runFollowMode 207-238: the parse, the index, and the last page of the
\* last block in the view.
FollowOpens(bs) ==
  /\ blocks' = bs
  /\ IF Len(bs) = 0
     THEN pc' = "noblocks" /\ UNCHANGED <<nameIndex, currentPos, currentPage, display>>
     ELSE /\ pc' = "following"
          /\ nameIndex' = NewBlockIndex(bs)
          /\ currentPos' = Len(bs) - 1
          /\ currentPage' = bs[Len(bs)].TotalPages - 1
          /\ ShowsCurrent(bs, Len(bs) - 1, bs[Len(bs)].TotalPages - 1)

OpenFollow ==
  /\ pc = "openfollow"
  /\ \E f \in SelectorFilters(parser, content) :
       /\ filters' = f
       /\ FollowOpens(FollowParse(parser, inputPath, content, f))
  /\ UNCHANGED renderRest

\* The widths the screen may have at a draw.
ScreenWidths == {80, 100}

\* runReaderMode 117-125, the function set with app.SetBeforeDrawFunc: at a
\* draw on a screen whose width is not termWidth, termWidth becomes that
\* width and renderAll writes the view again.
BeforeDraw ==
  /\ pc = "rendered"
  /\ \E w \in ScreenWidths :
       /\ w # terminalWidth
       /\ terminalWidth' = w
       /\ display' = TranslateANSI(renderAllContent(blocks, w, BorderNone))
  /\ UNCHANGED <<renderFixed, pc, filters, nameIndex, currentPos, currentPage, blocks>>

NextRender == OpenReader \/ RenderAll \/ BeforeDraw \/ OpenFollow \/ KeyNext \/ KeyPrev

SpecRender == InitRender /\ [][NextRender]_vars

\* A Block whose pages stand for the hunks of its content, one page each.
HunkPerPage(block) ==
  /\ block.ContentType = BlockContentDiff
  /\ Len(ParseHunks(block.Content)) >= 1
  /\ block.TotalPages = Len(ParseHunks(block.Content))

\* The rendering of a page of a hunk-per-page Block with hunk number
\* hunkIndex of the Block under the page's header.
PageWithHunk(block, pageNum, width, hunkIndex) ==
  DiffPageShowing(block, pageNum, width,
                  DiffPageFile(PageMetaOf(block, pageNum), block.Pages[pageNum + 1]),
                  ParseHunks(block.Content), hunkIndex)

\* A page as the claim has it (own: page i of a hunk-per-page Block shows
\* hunk i) or with the first hunk on every page of such a Block; any other
\* page is FormatBlockPage's.
ExpectedPage(block, pageNum, width, own) ==
  IF HunkPerPage(block)
  THEN PageWithHunk(block, pageNum, width, IF own THEN pageNum ELSE 0)
  ELSE FormatBlockPage(block, pageNum, width, BorderNone)

RECURSIVE ExpectedFrom(_, _, _, _, _)
ExpectedFrom(bs, i, pg, width, own) ==
  IF i >= Len(bs) THEN <<>>
  ELSE IF pg >= bs[i + 1].TotalPages THEN ExpectedFrom(bs, i + 1, 0, width, own)
  ELSE ExpectedPage(bs[i + 1], pg, width, own) \o ExpectedFrom(bs, i, pg + 1, width, own)

\* The text in the view when every page is as ExpectedPage has it: all
\* pages in the reader, the current page in follow mode.
ViewShows(own) ==
  /\ pc = "rendered" =>
       display = TranslateANSI(ExpectedFrom(blocks, 0, 0, terminalWidth, own))
  /\ pc = "following" =>
       display = TranslateANSI(ExpectedPage(blocks[currentPos + 1], currentPage,
                                            terminalWidth, own))

\* C25: for a hunk-per-page diff Block with N hunks, the rendering of page
\* i shows hunk i, for every 0 <= i < N; so the pages rendered in order by
\* renderAllContent show each hunk once.
C25_PageShowsItsHunk == ViewShows(TRUE)

\* What the code does instead: every page of such a Block shows the first
\* hunk, since neither DiffParser.Parse nor createBlock fills PageMeta.
C25_EveryPageShowsFirstHunk == ViewShows(FALSE)

\* Reached: a rendered Block of two different hunks, the second of which is
\* not in the view.
C25_TwoHunksRendered ==
  /\ pc = "rendered" /\ Len(blocks) = 1 /\ HunkPerPage(blocks[1])
  /\ blocks[1].TotalPages = 2
  /\ FormatHunk(ParseHunks(blocks[1].Content)[1], terminalWidth)
       # FormatHunk(ParseHunks(blocks[1].Content)[2], terminalWidth)
  /\ display = TranslateANSI(PageWithHunk(blocks[1], 0, terminalWidth, 0)
                               \o PageWithHunk(blocks[1], 1, terminalWidth, 0))

\* Reached: follow mode on a Markdown file opens on the second page of a
\* Block of two hunks, and shows the first hunk there.
C25_FollowShowsFirstHunk ==
  /\ pc = "following" /\ parser = MarkdownParser
  /\ HunkPerPage(blocks[currentPos + 1]) /\ currentPage = 1
  /\ display = TranslateANSI(PageWithHunk(blocks[currentPos + 1], 1, terminalWidth, 0))
  /\ display # TranslateANSI(PageWithHunk(blocks[currentPos + 1], 1, terminalWidth, 1))

=============================================================================
